---- MODULE Spec2Model ----
(***************************************************************************)
(* Model of the VacationPlaner package (src/src/vacationplaner):           *)
(* ConfigManager's validators and loaders, CalendarManager's day           *)
(* classification and statistics, and VacationPlanerApp's loading and      *)
(* initialisation.                                                         *)
(*                                                                         *)
(* Representation.                                                         *)
(*   - A str the code parses, transforms or searches (a date string, a   *)
(*     region, a file name) is the sequence of its characters.             *)
(*   - A datetime.date is its proleptic Gregorian ordinal (date.toordinal, *)
(*     0001-01-01 = 1), so comparing, adding one day and weekday() are     *)
(*     integer operations, as in CPython's datetime.                       *)
(*   - None is the empty tuple <<>>, a present value v is <<v>>.           *)
(*   - The arguments (year, month, day) of a call are a triple of ints.    *)
(*   - A JSON object is a record with a field "fields", the set of keys    *)
(*     the object has; `k in obj` is k \in obj.fields.  A JSON value whose *)
(*     type the code tests is a record [type, val].                        *)
(***************************************************************************)
EXTENDS Integers, Sequences, FiniteSets, TLC

VARIABLES
    vacation_file,      \* the vacation document json.load returns
    holiday_file,       \* what the holiday file holds: the document
                        \* json.load returns, or an iCalendar text
    vacation_config,    \* VacationPlanerApp.vacation_config
    holiday_config,     \* VacationPlanerApp.holiday_config
    vacation_outcome,   \* how the last load_vacation_config call ended
    holiday_outcome,    \* how the last load_holiday_config call ended
    calendar_manager,   \* VacationPlanerApp.calendar_manager
    initialized,        \* what initialize() returned
    day_info,           \* the last get_day_info call and its result
    stats,              \* the last calculate_statistics result
    stats_error,        \* the exception the last calculate_statistics raised
    vacation_config_path, \* the constructor's vacation_config_path argument
    holiday_config_path,  \* the constructor's holiday_config_path argument:
                          \* None, or the name and whether a file is there
    conf_dir,           \* what the globs over the configuration directory list
    load_call,          \* the last ConfigManager.load_*_config call and its end
    cli_args,           \* the options of the command line main() ran with
    ics_file,           \* the calendar file generate_ics wrote
    viz_files,          \* the picture files create_visualization wrote
    app_outcome         \* how the last create_visualization, create_ics or
                        \* run call ended, or a direct CalendarManager(...)

\* the constructor's arguments, the directory, the call on ConfigManager
\* and the command line
others ==
    <<vacation_config_path, holiday_config_path, conf_dir, load_call, cli_args>>

\* what the calls that write files leave
outputs == <<ics_file, viz_files, app_outcome>>

vars == <<vacation_file, holiday_file, vacation_config, holiday_config,
          vacation_outcome, holiday_outcome, calendar_manager, initialized,
          day_info, stats, stats_error, others, outputs>>

None == <<>>
Some(v) == <<v>>
Val(o) == o[1]

\* what a call whose value is None or Some(v) gives when it raises exc
Raised(exc) == <<"raised", exc>>

(***************************************************************************)
(* str: the operations the code applies to regions and file names.         *)
(***************************************************************************)
\* The characters of the explored strs are those of Unicode up to U+00FF
\* (Basic Latin and the Latin-1 Supplement).  cased_upper lists the
\* characters c of that range with c.lower() != c, cased_lower their
\* lowercase, position by position.
cased_upper ==
    <<"A", "B", "C", "D", "E", "F", "G", "H", "I", "J", "K", "L", "M",
      "N", "O", "P", "Q", "R", "S", "T", "U", "V", "W", "X", "Y", "Z",
      "À", "Á", "Â", "Ã", "Ä", "Å", "Æ", "Ç", "È", "É", "Ê", "Ë", "Ì",
      "Í", "Î", "Ï", "Ð", "Ñ", "Ò", "Ó", "Ô", "Õ", "Ö", "Ø", "Ù", "Ú",
      "Û", "Ü", "Ý", "Þ">>
cased_lower ==
    <<"a", "b", "c", "d", "e", "f", "g", "h", "i", "j", "k", "l", "m",
      "n", "o", "p", "q", "r", "s", "t", "u", "v", "w", "x", "y", "z",
      "à", "á", "â", "ã", "ä", "å", "æ", "ç", "è", "é", "ê", "ë", "ì",
      "í", "î", "ï", "ð", "ñ", "ò", "ó", "ô", "õ", "ö", "ø", "ù", "ú",
      "û", "ü", "ý", "þ">>
digits == <<"0", "1", "2", "3", "4", "5", "6", "7", "8", "9">>

LowerTable ==
    [c \in {cased_upper[k] : k \in DOMAIN cased_upper} |->
        cased_lower[CHOOSE k \in DOMAIN cased_upper : cased_upper[k] = c]]

\* str.lower()
lower(s) ==
    [i \in DOMAIN s |->
        IF s[i] \in DOMAIN LowerTable THEN LowerTable[s[i]] ELSE s[i]]

\* `sub in s` for two strs
Contains(s, sub) ==
    \E k \in 0..(Len(s) - Len(sub)) : SubSeq(s, k + 1, k + Len(sub)) = sub

\* str(n) for an int
RECURSIVE str(_)
str(n) ==
    IF n < 0 THEN <<"-">> \o str(-n)
    ELSE IF n < 10 THEN <<digits[n + 1]>>
    ELSE str(n \div 10) \o <<digits[(n % 10) + 1]>>

\* str.zfill(width) for a str of digits
RECURSIVE zfill(_, _)
zfill(s, width) == IF Len(s) >= width THEN s ELSE zfill(<<"0">> \o s, width)

\* int(s) for a str of decimal digits, a leading blank allowed
RECURSIVE int(_)
int(s) ==
    IF s = <<>> THEN 0
    ELSE IF Head(s) = " " THEN int(Tail(s))
    ELSE int(SubSeq(s, 1, Len(s) - 1)) * 10
             + (CHOOSE k \in 0..9 : digits[k + 1] = s[Len(s)])

\* str.endswith(suffix)
endswith(s, suffix) ==
    /\ Len(s) >= Len(suffix)
    /\ SubSeq(s, Len(s) - Len(suffix) + 1, Len(s)) = suffix

\* str.replace(old, new) for a non-empty old: the occurrences of old are
\* replaced from the left, without overlap
RECURSIVE replace(_, _, _)
replace(s, old, new) ==
    IF Len(s) < Len(old) THEN s
    ELSE IF SubSeq(s, 1, Len(old)) = old
    THEN new \o replace(SubSeq(s, Len(old) + 1, Len(s)), old, new)
    ELSE <<Head(s)>> \o replace(Tail(s), old, new)

\* the suffixes '.json' and '.ics'
dot_json == <<".", "j", "s", "o", "n">>
dot_ics == <<".", "i", "c", "s">>

\* f"holidays-{region}-{year_str}.json"
HolidayFileName(region, year) ==
    <<"h", "o", "l", "i", "d", "a", "y", "s", "-">> \o region \o <<"-">>
        \o str(year) \o dot_json

\* f"holidays-{region}-{year_str}.ics"
HolidayICalName(region, year) ==
    <<"h", "o", "l", "i", "d", "a", "y", "s", "-">> \o region \o <<"-">>
        \o str(year) \o dot_ics

(***************************************************************************)
(* Bounds of the explored inputs.                                          *)
(***************************************************************************)
\* the most blocks and holiday entries, together, in a pair of valid documents
MaxEntries == 2
\* the most blocks, or entries, in a document that has a defective one
MaxBadLen == 2
\* the most lines typed at the prompts of one call
MaxInputs == 2

(***************************************************************************)
(* datetime: the calendar arithmetic behind datetime.strptime(...).date(), *)
(* date(y, m, d), date.weekday() and date + timedelta(days=1).             *)
(***************************************************************************)
\* _is_leap without the century rule
_is_leap_Julian(year) == year % 4 = 0

_is_leap(year) == year % 4 = 0 /\ (year % 100 # 0 \/ year % 400 = 0)

_days_before_year(year) ==
    LET y == year - 1
    IN  y * 365 + (y \div 4) - (y \div 100) + (y \div 400)

_days_in_month(year, month) ==
    IF month = 2 /\ _is_leap(year) THEN 29
    ELSE <<31, 28, 31, 30, 31, 30, 31, 31, 30, 31, 30, 31>>[month]

_days_before_month(year, month) ==
    <<0, 31, 59, 90, 120, 151, 181, 212, 243, 273, 304, 334>>[month]
        + (IF month > 2 /\ _is_leap(year) THEN 1 ELSE 0)

_ymd2ord(year, month, day) ==
    _days_before_year(year) + _days_before_month(year, month) + day

\* date(year, month, day) succeeds exactly for these arguments
IsRealDate(year, month, day) ==
    /\ year \in 1..9999
    /\ month \in 1..12
    /\ day \in 1.._days_in_month(year, month)

\* date(year, month, day): the date, or None where Python raises ValueError
date(year, month, day) ==
    IF IsRealDate(year, month, day) THEN Some(_ymd2ord(year, month, day))
    ELSE None

\* date.weekday(): 0 = Monday ... 6 = Sunday
weekday(d) == (d + 6) % 7

IsDigit(c) == \E k \in 1..10 : digits[k] = c

\* int(c) for a decimal digit c
DigitValue ==
    [c \in {digits[k] : k \in 1..10} |-> CHOOSE n \in 0..9 : digits[n + 1] = c]

\* The regular expressions _strptime compiles for the directives, as the
\* strs each of them takes and the number int() makes of each:
\*   %Y  \d\d\d\d
\*   %m  1[0-2]|0[1-9]|[1-9]
\*   %d  3[01]|[12]\d|0[1-9]|[1-9]| [1-9]
YearTexts == [1..4 -> DOMAIN DigitValue]
MonthValue ==
    [t \in {str(n) : n \in 1..9} \cup {zfill(str(n), 2) : n \in 1..12} |->
        int(t)]
DayValue ==
    [t \in {str(n) : n \in 1..9} \cup {zfill(str(n), 2) : n \in 1..31}
           \cup {<<" ">> \o str(n) : n \in 1..9} |->
        int(t)]

\* datetime.strptime(date_str, "%Y-%m-%d").date() for a str: the format's
\* expression must match at the start of the string ("does not match
\* format") and take all of it ("unconverted data remains"), so the string
\* is a year, a hyphen, a month, a hyphen at position j and a day; the
\* date constructor then rejects year 0 and a day the month does not have.
\* None where Python raises ValueError.
strptime(date_str) ==
    LET j == IF Len(date_str) >= 7 /\ date_str[7] = "-" THEN 7 ELSE 8
    IN  IF /\ Len(date_str) > j
           /\ SubSeq(date_str, 1, 4) \in YearTexts
           /\ date_str[5] = "-"
           /\ SubSeq(date_str, 6, j - 1) \in DOMAIN MonthValue
           /\ date_str[j] = "-"
           /\ SubSeq(date_str, j + 1, Len(date_str)) \in DOMAIN DayValue
        THEN date(int(SubSeq(date_str, 1, 4)),
                  MonthValue[SubSeq(date_str, 6, j - 1)],
                  DayValue[SubSeq(date_str, j + 1, Len(date_str))])
        ELSE None

(***************************************************************************)
(* ConfigManager: the two validators.  A validator returns nothing and     *)
(* raises ValueError; the model returns the kind of the message raised,    *)
(* or "ok".                                                                *)
(*   "MissingField"       Missing required field in ...                    *)
(*   "InvalidType"        Year must be an integer / ... must be a list     *)
(*   "InvalidDateFormat"  Invalid date format in ...                       *)
(***************************************************************************)
isinstance(value, type) == value.type = type

\* for field in required_fields: if field not in obj: raise ValueError
MissingRequired(obj, required_fields) ==
    \E i \in 1..Len(required_fields) : required_fields[i] \notin obj.fields

\* The body of the try block of _validate_vacation_config: the exception it
\* raises, or "ok".  Both exceptions are ValueError.
VacationBlockTry(block) ==
    LET start_date == strptime(block.start)
        end_date == strptime(block.end)
    IN  IF start_date = None \/ end_date = None THEN "ValueError: strptime"
        ELSE IF Val(start_date) > Val(end_date)
             THEN "ValueError: start after end"
             ELSE "ok"

\* ValidateVacationBlock without the date checks
ValidateVacationBlock_NoDates(block) ==
    IF MissingRequired(block, <<"description", "start", "end">>)
    THEN "MissingField"
    ELSE "ok"

\* One iteration of `for block in config['vacationBlocks']`.  The except
\* clause catches every ValueError raised in the try block, the one raised
\* for start_date > end_date included, and raises the date-format error.
ValidateVacationBlock(block) ==
    IF MissingRequired(block, <<"description", "start", "end">>)
    THEN "MissingField"
    ELSE IF VacationBlockTry(block) # "ok" THEN "InvalidDateFormat"
         ELSE "ok"

RECURSIVE ValidateVacationBlocks(_, _)
ValidateVacationBlocks(blocks, i) ==
    IF i > Len(blocks) THEN "ok"
    ELSE LET r == ValidateVacationBlock(blocks[i])
         IN  IF r # "ok" THEN r ELSE ValidateVacationBlocks(blocks, i + 1)

\* _validate_vacation_config without the test of the year's type
_validate_vacation_config_NoYearCheck(config) ==
    IF MissingRequired(config,
           <<"firstName", "lastName", "year", "region", "vacationBlocks">>)
    THEN "MissingField"
    ELSE IF ~isinstance(config.vacationBlocks, "list") THEN "InvalidType"
    ELSE ValidateVacationBlocks(config.vacationBlocks.val, 1)

_validate_vacation_config(config) ==
    IF MissingRequired(config,
           <<"firstName", "lastName", "year", "region", "vacationBlocks">>)
    THEN "MissingField"
    ELSE IF ~isinstance(config.year, "int") THEN "InvalidType"
    ELSE IF ~isinstance(config.vacationBlocks, "list") THEN "InvalidType"
    ELSE ValidateVacationBlocks(config.vacationBlocks.val, 1)

\* One iteration of `for holiday in config['holidays']`
ValidateHoliday(holiday) ==
    IF MissingRequired(holiday, <<"date", "description">>)
    THEN "MissingField"
    ELSE IF strptime(holiday.date) = None THEN "InvalidDateFormat"
         ELSE "ok"

RECURSIVE ValidateHolidays(_, _)
ValidateHolidays(holidays, i) ==
    IF i > Len(holidays) THEN "ok"
    ELSE LET r == ValidateHoliday(holidays[i])
         IN  IF r # "ok" THEN r ELSE ValidateHolidays(holidays, i + 1)

_validate_holiday_config(config) ==
    IF MissingRequired(config, <<"region", "year", "holidays">>)
    THEN "MissingField"
    ELSE IF ~isinstance(config.holidays, "list") THEN "InvalidType"
    ELSE ValidateHolidays(config.holidays.val, 1)

(***************************************************************************)
(* datetime: date.strftime('%Y-%m-%d'), by CPython's _ord2ymd.             *)
(***************************************************************************)
_ord2ymd(ordinal) ==
    LET n0 == ordinal - 1
        n400 == n0 \div 146097
        r400 == n0 % 146097
        n100 == r400 \div 36524
        r100 == r400 % 36524
        n4 == r100 \div 1461
        r4 == r100 % 1461
        n1 == r4 \div 365
        n == r4 % 365
        year == n400 * 400 + 1 + n100 * 100 + n4 * 4 + n1
        leapyear == n1 = 3 /\ (n4 # 24 \/ n100 = 3)
        leap1(mo) == IF mo > 2 /\ leapyear THEN 1 ELSE 0
        before(mo) ==
            <<0, 31, 59, 90, 120, 151, 181, 212, 243, 273, 304, 334>>[mo]
                + leap1(mo)
        month0 == (n + 50) \div 32
        month == IF before(month0) > n THEN month0 - 1 ELSE month0
    IN  IF n1 = 4 \/ n100 = 4 THEN <<year - 1, 12, 31>>
        ELSE <<year, month, n - before(month) + 1>>

\* date.strftime('%Y-%m-%d'): the C library's strftime writes the year
\* without padding and the month and the day with two digits
strftime(d) ==
    LET ymd == _ord2ymd(d)
    IN  str(ymd[1]) \o <<"-">> \o zfill(str(ymd[2]), 2) \o <<"-">>
            \o zfill(str(ymd[3]), 2)

\* date.isoformat(): "%04d-%02d-%02d"
isoformat(d) ==
    LET ymd == _ord2ymd(d)
    IN  zfill(str(ymd[1]), 4) \o <<"-">> \o zfill(str(ymd[2]), 2) \o <<"-">>
            \o zfill(str(ymd[3]), 2)

(***************************************************************************)
(* CalendarManager.  The object is the record                              *)
(*   [year, holiday_config, vacation_config, holidays, vacation_blocks];   *)
(* holidays is the list of parsed dates, vacation_blocks the list of       *)
(* (start_date, end_date, description, block_id) tuples.                   *)
(***************************************************************************)
\* CalendarManager._parse_date: the date, or None for ValueError
_parse_date(date_str) == strptime(date_str)

\* CalendarManager._parse_holidays: an entry whose date does not parse is
\* skipped
RECURSIVE ParseHolidaysFrom(_, _)
ParseHolidaysFrom(entries, i) ==
    IF i > Len(entries) THEN <<>>
    ELSE LET holiday_date == _parse_date(entries[i].date)
         IN  (IF holiday_date = None THEN <<>> ELSE <<Val(holiday_date)>>)
                 \o ParseHolidaysFrom(entries, i + 1)

_parse_holidays(hcfg) ==
    ParseHolidaysFrom(hcfg.holidays.val, 1)

\* CalendarManager._parse_vacation_blocks: enumerate() numbers the blocks
\* from 0; a block with a date that does not parse is skipped and the
\* numbering goes on
RECURSIVE ParseBlocksFrom(_, _)
ParseBlocksFrom(blocks, i) ==
    IF i > Len(blocks) THEN <<>>
    ELSE LET start_date == _parse_date(blocks[i].start)
             end_date == _parse_date(blocks[i].end)
         IN  (IF start_date = None \/ end_date = None THEN <<>>
              ELSE << <<Val(start_date), Val(end_date),
                        blocks[i].description, i - 1>> >>)
                 \o ParseBlocksFrom(blocks, i + 1)

\* _parse_vacation_blocks numbering the blocks it keeps from 0
_parse_vacation_blocks_Renumbered(vcfg) ==
    LET kept == ParseBlocksFrom(vcfg.vacationBlocks.val, 1)
    IN  [k \in 1..Len(kept) |->
            <<kept[k][1], kept[k][2], kept[k][3], k - 1>>]

_parse_vacation_blocks(vcfg) ==
    ParseBlocksFrom(vcfg.vacationBlocks.val, 1)

\* `for x in value: x[key]` over a value that is not a list raises
\* TypeError: a str yields its characters and a dict its keys, strs that
\* x[key] rejects, so the loop raises unless the str or dict is empty; any
\* other value is not iterable.
LoopRaises(value) ==
    IF value.type \in {"str", "dict"} THEN value.val # <<>> ELSE TRUE

\* The constructor raises (KeyError, TypeError) on a key it reads and the
\* document lacks and on a value its loops cannot read; there is no test
\* of a type, and the ValueError of a date is caught inside the loops.
ConstructorRaises(hcfg, vcfg) ==
    \/ "holidays" \notin hcfg.fields
    \/ IF hcfg.holidays.type = "list"
       THEN \E i \in 1..Len(hcfg.holidays.val) :
               "date" \notin hcfg.holidays.val[i].fields
       ELSE LoopRaises(hcfg.holidays)
    \/ "vacationBlocks" \notin vcfg.fields
    \/ IF vcfg.vacationBlocks.type = "list"
       THEN \E i \in 1..Len(vcfg.vacationBlocks.val) :
               LET block == vcfg.vacationBlocks.val[i]
               IN  \/ "start" \notin block.fields
                   \/ /\ _parse_date(block.start) # None
                      /\ \/ "end" \notin block.fields
                         \/ /\ _parse_date(block.end) # None
                            /\ "description" \notin block.fields
       ELSE LoopRaises(vcfg.vacationBlocks)

\* CalendarManager.__init__: the object, or None when it raises
CalendarManager(year, hcfg, vcfg) ==
    IF ConstructorRaises(hcfg, vcfg) THEN None
    ELSE Some([year |-> year,
               holiday_config |-> hcfg,
               vacation_config |-> vcfg,
               holidays |-> _parse_holidays(hcfg),
               vacation_blocks |-> _parse_vacation_blocks(vcfg)])

is_holiday(self, day) == \E i \in 1..Len(self.holidays) : self.holidays[i] = day

\* the first block, in list order, with start <= day <= end
RECURSIVE FirstBlockAt(_, _, _)
FirstBlockAt(vacation_blocks, day, i) ==
    IF i > Len(vacation_blocks) THEN None
    ELSE IF vacation_blocks[i][1] <= day /\ day <= vacation_blocks[i][2]
         THEN Some(vacation_blocks[i])
         ELSE FirstBlockAt(vacation_blocks, day, i + 1)

get_vacation_block_id(self, day) ==
    LET b == FirstBlockAt(self.vacation_blocks, day, 1)
    IN  IF b = None THEN None ELSE Some(Val(b)[4])

\* is_vacation with a block that does not include its start date
is_vacation_AfterStart(self, day) ==
    \E i \in 1..Len(self.vacation_blocks) :
        /\ self.vacation_blocks[i][1] < day
        /\ day <= self.vacation_blocks[i][2]

is_vacation(self, day) == get_vacation_block_id(self, day) # None

\* is_weekend that takes Sunday only
is_weekend_SundayOnly(self, day) == weekday(day) >= 6

is_weekend(self, day) == weekday(day) >= 5

\* the loop of get_holiday_description from entry i on: the description
\* of the first entry whose date parses and equals day; holiday['date']
\* and holiday['description'] raise KeyError on an entry without the key,
\* and only the ValueError of _parse_date is caught
RECURSIVE HolidayDescriptionFrom(_, _, _)
HolidayDescriptionFrom(entries, day, i) ==
    IF i > Len(entries) THEN None
    ELSE IF "date" \notin entries[i].fields THEN Raised("KeyError")
    ELSE IF _parse_date(entries[i].date) = Some(day)
         THEN IF "description" \in entries[i].fields
              THEN Some(entries[i].description)
              ELSE Raised("KeyError")
         ELSE HolidayDescriptionFrom(entries, day, i + 1)

\* the description of the last entry of the config whose date equals day
RECURSIVE LastHolidayDescriptionFrom(_, _, _)
LastHolidayDescriptionFrom(entries, day, i) ==
    IF i < 1 THEN None
    ELSE IF "date" \notin entries[i].fields THEN Raised("KeyError")
    ELSE IF _parse_date(entries[i].date) = Some(day)
         THEN IF "description" \in entries[i].fields
              THEN Some(entries[i].description)
              ELSE Raised("KeyError")
         ELSE LastHolidayDescriptionFrom(entries, day, i - 1)

\* get_holiday_description taking the last matching entry
get_holiday_description_LastEntry(self, day) ==
    LastHolidayDescriptionFrom(self.holiday_config.holidays.val, day,
                               Len(self.holiday_config.holidays.val))

get_holiday_description(self, day) ==
    HolidayDescriptionFrom(self.holiday_config.holidays.val, day, 1)

\* get_vacation_description taking the last block that covers day
get_vacation_description_LastBlock(self, day) ==
    LET covering == {i \in 1..Len(self.vacation_blocks) :
                        /\ self.vacation_blocks[i][1] <= day
                        /\ day <= self.vacation_blocks[i][2]}
    IN  IF covering = {} THEN None
        ELSE Some(self.vacation_blocks[CHOOSE i \in covering :
                                           \A j \in covering : j <= i][3])

get_vacation_description(self, day) ==
    LET b == FirstBlockAt(self.vacation_blocks, day, 1)
    IN  IF b = None THEN None ELSE Some(Val(b)[3])

\* DayType with the vacation test ahead of the weekend test
DayType_VacationFirst(self, current_date) ==
    IF is_holiday(self, current_date) THEN "holiday"
    ELSE IF is_vacation(self, current_date) THEN "vacation"
    ELSE IF is_weekend(self, current_date) THEN "weekend"
    ELSE "weekday"

\* the if/elif chain of get_day_info
DayType(self, current_date) ==
    IF is_holiday(self, current_date) THEN "holiday"
    ELSE IF is_weekend(self, current_date) THEN "weekend"
    ELSE IF is_vacation(self, current_date) THEN "vacation"
    ELSE "weekday"

\* the `return {...}` of get_day_info: the dictionary, unless the call
\* that gives the description raised KeyError
DayInfo(day_type, day, description, vacation_block) ==
    IF description = Raised("KeyError") THEN Raised("KeyError")
    ELSE Some([type |-> day_type, display |-> Some(day),
               description |-> description,
               vacation_block |-> vacation_block])

\* get_day_info that attaches the block only to vacation-typed days
get_day_info_TypedBlock(self, year, month, day) ==
    IF day = 0
    THEN Some([type |-> "outside", display |-> None,
               description |-> None, vacation_block |-> None])
    ELSE IF date(year, month, day) = None THEN None
    ELSE LET current_date == Val(date(year, month, day))
             day_type == DayType(self, current_date)
         IN  DayInfo(day_type, day,
                     IF day_type = "holiday"
                     THEN get_holiday_description(self, current_date)
                     ELSE IF day_type = "vacation"
                     THEN get_vacation_description(self, current_date)
                     ELSE None,
                     IF day_type = "vacation"
                     THEN get_vacation_block_id(self, current_date)
                     ELSE None)

\* CalendarManager.get_day_info: the dictionary, None where date(year,
\* month, day) raises ValueError, or the KeyError get_holiday_description
\* raises, which nothing here catches.  display is '' (None) for a padding
\* cell and str(day), the day number, otherwise.
get_day_info(self, year, month, day) ==
    IF day = 0
    THEN Some([type |-> "outside", display |-> None,
               description |-> None, vacation_block |-> None])
    ELSE IF date(year, month, day) = None THEN None
    ELSE LET current_date == Val(date(year, month, day))
             day_type == DayType(self, current_date)
         IN  DayInfo(day_type, day,
                     IF day_type = "holiday"
                     THEN get_holiday_description(self, current_date)
                     ELSE IF day_type = "vacation"
                     THEN get_vacation_description(self, current_date)
                     ELSE None,
                     get_vacation_block_id(self, current_date))

\* a loop over the cells of the year, as generate_ics and the visualizer
\* run it, meets a day on which get_day_info raises KeyError: a day of
\* self.holidays, which is typed holiday, whose description raises
DayInfoRaises(self) ==
    \E i \in 1..Len(self.holidays) :
        /\ _ord2ymd(self.holidays[i])[1] = self.year
        /\ get_holiday_description(self, self.holidays[i]) = Raised("KeyError")

(***************************************************************************)
(* CalendarManager.calculate_statistics                                    *)
(***************************************************************************)
\* vacation_block_days: the set the first loop fills, every date from start
\* to end of every block
RECURSIVE VacationBlockDaysFrom(_, _)
VacationBlockDaysFrom(vacation_blocks, i) ==
    IF i > Len(vacation_blocks) THEN {}
    ELSE (vacation_blocks[i][1]..vacation_blocks[i][2])
             \cup VacationBlockDaysFrom(vacation_blocks, i + 1)

vacation_block_days(self) == VacationBlockDaysFrom(self.vacation_blocks, 1)

\* YearStep counting a holiday only when it is not a Saturday or Sunday
YearStep_WeekdayHolidays(self, block_days, current_date) ==
    LET weekend == is_weekend(self, current_date)
        in_block == current_date \in block_days
    IN  [total_days |-> 1,
         holidays |-> IF is_holiday(self, current_date) /\ ~weekend
                      THEN 1 ELSE 0,
         weekends |-> IF weekend THEN 1 ELSE 0,
         workdays |-> IF weekend THEN 0 ELSE 1,
         vacation_workdays |-> IF ~weekend /\ in_block THEN 1 ELSE 0,
         vacation_days |-> IF in_block THEN 1 ELSE 0]

\* YearStep leaving a holiday out of vacation_workdays
YearStep_HolidayExcluded(self, block_days, current_date) ==
    LET weekend == is_weekend(self, current_date)
        in_block == current_date \in block_days
    IN  [total_days |-> 1,
         holidays |-> IF is_holiday(self, current_date) THEN 1 ELSE 0,
         weekends |-> IF weekend THEN 1 ELSE 0,
         workdays |-> IF weekend THEN 0 ELSE 1,
         vacation_workdays |->
             IF ~weekend /\ in_block /\ ~is_holiday(self, current_date)
             THEN 1 ELSE 0,
         vacation_days |-> IF in_block THEN 1 ELSE 0]

\* what one pass of `while current_date <= end_date` adds to the counters
YearStep(self, block_days, current_date) ==
    LET weekend == is_weekend(self, current_date)
        in_block == current_date \in block_days
    IN  [total_days |-> 1,
         holidays |-> IF is_holiday(self, current_date) THEN 1 ELSE 0,
         weekends |-> IF weekend THEN 1 ELSE 0,
         workdays |-> IF weekend THEN 0 ELSE 1,
         vacation_workdays |-> IF ~weekend /\ in_block THEN 1 ELSE 0,
         vacation_days |-> IF in_block THEN 1 ELSE 0]

AddCounters(a, b) == [k \in DOMAIN a |-> a[k] + b[k]]

\* the loop from current_date to end_date, one day at a time: the counters
\* start at 0 and every pass adds its YearStep.  The passes are summed by
\* halving the range, which keeps the recursion shallow.
RECURSIVE YearLoop(_, _, _, _)
YearLoop(self, block_days, current_date, end_date) ==
    IF current_date > end_date
    THEN [total_days |-> 0, holidays |-> 0, weekends |-> 0, workdays |-> 0,
          vacation_workdays |-> 0, vacation_days |-> 0]
    ELSE IF current_date = end_date
    THEN YearStep(self, block_days, current_date)
    ELSE LET mid == (current_date + end_date) \div 2
         IN  AddCounters(YearLoop(self, block_days, current_date, mid),
                         YearLoop(self, block_days, mid + 1, end_date))

\* BlockStep counting a holiday on a weekday as a workday of the block
BlockStep_HolidaysCounted(self, current_date) ==
    <<1, IF ~is_weekend(self, current_date) THEN 1 ELSE 0>>

\* what one pass of the per-block loop adds to <<block_days, block_workdays>>
BlockStep(self, current_date) ==
    <<1, IF ~is_weekend(self, current_date) /\ ~is_holiday(self, current_date)
         THEN 1 ELSE 0>>

\* the per-block loop `while current_date <= end`, summed the same way
RECURSIVE BlockLoop(_, _, _)
BlockLoop(self, current_date, end) ==
    IF current_date > end THEN <<0, 0>>
    ELSE IF current_date = end THEN BlockStep(self, current_date)
    ELSE LET mid == (current_date + end) \div 2
             l == BlockLoop(self, current_date, mid)
             r == BlockLoop(self, mid + 1, end)
         IN  <<l[1] + r[1], l[2] + r[2]>>

\* BlockStats with a loop that stops before the end date
BlockStats_ExclusiveEnd(self, block) ==
    LET c == BlockLoop(self, block[1], block[2] - 1)
    IN  [id |-> block[4],
         description |-> block[3],
         start |-> strftime(block[1]),
         end |-> strftime(block[2]),
         total_days |-> c[1],
         workdays |-> c[2]]

BlockStats(self, block) ==
    LET c == BlockLoop(self, block[1], block[2])
    IN  [id |-> block[4],
         description |-> block[3],
         start |-> strftime(block[1]),
         end |-> strftime(block[2]),
         total_days |-> c[1],
         workdays |-> c[2]]

\* how calculate_statistics ends: date(self.year, 1, 1) raises ValueError
\* for a year outside 1..9999, and `current_date += timedelta(days=1)`
\* raises OverflowError when current_date is date.max, 9999-12-31, which is
\* where the loop over a block that ends there and the loop over the year
\* 9999 arrive
StatisticsOutcome(self) ==
    IF date(self.year, 1, 1) = None THEN "ValueError"
    ELSE IF \/ \E i \in 1..Len(self.vacation_blocks) :
                  self.vacation_blocks[i][2] = Val(date(9999, 12, 31))
            \/ date(self.year, 12, 31) = date(9999, 12, 31)
    THEN "OverflowError"
    ELSE "ok"

\* the dictionary calculate_statistics returns when it returns
calculate_statistics(self) ==
    LET start_date == Val(date(self.year, 1, 1))
        end_date == Val(date(self.year, 12, 31))
        c == YearLoop(self, vacation_block_days(self), start_date, end_date)
    IN  [total_days |-> c.total_days,
         workdays |-> c.workdays,
         weekends |-> c.weekends,
         holidays |-> c.holidays,
         vacation_days |-> c.vacation_days,
         vacation_workdays |-> c.vacation_workdays,
         days_off |-> c.weekends + c.holidays + c.vacation_workdays,
         days_at_work |-> c.workdays - c.vacation_workdays,
         vacation_blocks |->
             [i \in 1..Len(self.vacation_blocks) |->
                 BlockStats(self, self.vacation_blocks[i])]]

(***************************************************************************)
(* CalendarManager.get_monthly_calendar and ICSGenerator.  A formatted     *)
(* text f"{a} - {b}" is the tuple of its parts.                            *)
(***************************************************************************)
\* calendar.weekday: a year datetime.date rejects is replaced by
\* 2000 + year % 400
calendar_weekday(year, month, day) ==
    IF 1 <= year /\ year <= 9999
    THEN weekday(Val(date(year, month, day)))
    ELSE weekday(Val(date(2000 + (year % 400), month, day)))

\* calendar.Calendar().monthdayscalendar(year, month): the weeks of the
\* month, Monday first, each of seven cells; 0 is a cell outside the month
monthdayscalendar(year, month) ==
    LET days_before == calendar_weekday(year, month, 1)
        ndays == _days_in_month(year, month)
        weeks == (days_before + ndays + 6) \div 7
    IN  [w \in 1..weeks |->
            [c \in 1..7 |->
                LET d == (w - 1) * 7 + c - days_before
                IN  IF 1 <= d /\ d <= ndays THEN d ELSE 0]]

\* CalendarManager.get_monthly_calendar: None where it raises ValueError
get_monthly_calendar(self, month) ==
    IF ~(1 <= month /\ month <= 12) THEN None
    ELSE Some(monthdayscalendar(self.year, month))

\* `text or default`
OrDefault(text, default) ==
    IF text = None \/ Val(text) = "" THEN default ELSE Val(text)

\* _create_event with DTEND on the day of the event
_create_event_SameDay(self, event_date, info) ==
    LET name == <<self.vacation_config.firstName, self.vacation_config.lastName>>
    IN  [dtstart |-> event_date,
         dtend |-> event_date,
         organizer |-> name,
         summary |->
             <<(CASE info.type = "holiday" -> OrDefault(info.description, "Holiday")
                  [] info.type = "vacation" -> OrDefault(info.description, "Vacation")
                  [] OTHER -> "Weekend"), name>>,
         class |-> IF info.type = "vacation" THEN "PRIVATE" ELSE "PUBLIC",
         categories |->
             CASE info.type = "holiday" -> "Holiday"
               [] info.type = "vacation" -> "Vacation"
               [] OTHER -> "Weekend",
         uid |-> <<isoformat(event_date), info.type, name>>]

\* _create_event with class PRIVATE for every day inside a vacation block
_create_event_BlockPrivate(self, event_date, info) ==
    LET name == <<self.vacation_config.firstName, self.vacation_config.lastName>>
    IN  [dtstart |-> event_date,
         dtend |-> event_date + 1,
         organizer |-> name,
         summary |->
             <<(CASE info.type = "holiday" -> OrDefault(info.description, "Holiday")
                  [] info.type = "vacation" -> OrDefault(info.description, "Vacation")
                  [] OTHER -> "Weekend"), name>>,
         class |-> IF info.vacation_block # None THEN "PRIVATE" ELSE "PUBLIC",
         categories |->
             CASE info.type = "holiday" -> "Holiday"
               [] info.type = "vacation" -> "Vacation"
               [] OTHER -> "Weekend",
         uid |-> <<isoformat(event_date), info.type, name>>]

\* ICSGenerator._create_event for a day of type holiday, vacation or weekend
_create_event(self, event_date, info) ==
    LET name == <<self.vacation_config.firstName, self.vacation_config.lastName>>
    IN  [dtstart |-> event_date,
         dtend |-> event_date + 1,
         organizer |-> name,
         summary |->
             <<(CASE info.type = "holiday" -> OrDefault(info.description, "Holiday")
                  [] info.type = "vacation" -> OrDefault(info.description, "Vacation")
                  [] OTHER -> "Weekend"), name>>,
         class |-> IF info.type = "vacation" THEN "PRIVATE" ELSE "PUBLIC",
         categories |->
             CASE info.type = "holiday" -> "Holiday"
               [] info.type = "vacation" -> "Vacation"
               [] OTHER -> "Weekend",
         uid |-> <<isoformat(event_date), info.type, name>>]

\* the body of the loops of generate_ics for one cell: the events it adds
DayEvents(self, include_weekends, month, day) ==
    IF day = 0 THEN <<>>
    ELSE LET current_date == Val(date(self.year, month, day))
             info == Val(get_day_info(self, self.year, month, day))
         IN  IF info.type = "weekday" THEN <<>>
             ELSE IF info.type = "weekend" /\ ~include_weekends THEN <<>>
             ELSE <<_create_event(self, current_date, info)>>

\* `for day in week`, from cell c of the week on
RECURSIVE WeekEvents(_, _, _, _, _)
WeekEvents(self, include_weekends, month, week, c) ==
    IF c > Len(week) THEN <<>>
    ELSE DayEvents(self, include_weekends, month, week[c])
             \o WeekEvents(self, include_weekends, month, week, c + 1)

\* `for week in month_cal`, from week w of the month on
RECURSIVE MonthEvents(_, _, _, _, _)
MonthEvents(self, include_weekends, month, month_cal, w) ==
    IF w > Len(month_cal) THEN <<>>
    ELSE WeekEvents(self, include_weekends, month, month_cal[w], 1)
             \o MonthEvents(self, include_weekends, month, month_cal, w + 1)

\* `for month in range(1, 13)`, from the given month on
RECURSIVE YearEvents(_, _, _)
YearEvents(self, include_weekends, month) ==
    IF month > 12 THEN <<>>
    ELSE MonthEvents(self, include_weekends, month,
                     Val(get_monthly_calendar(self, month)), 1)
             \o YearEvents(self, include_weekends, month + 1)

\* how generate_ics ends: date(year, 1, 1) raises ValueError for a year
\* outside 1..9999, get_day_info raises KeyError on a holiday whose entry
\* has no description, and event_date + timedelta(days=1) raises
\* OverflowError for an event on date.max, 9999-12-31, the last cell
GenerateOutcome(self, include_weekends) ==
    IF date(self.year, 1, 1) = None THEN "ValueError"
    ELSE IF DayInfoRaises(self) THEN "KeyError"
    ELSE IF /\ date(self.year, 12, 31) = date(9999, 12, 31)
            /\ DayEvents(self, include_weekends, 12, 31) # <<>>
    THEN "OverflowError"
    ELSE "ok"

\* ICSGenerator.generate_ics: the file it writes when it returns, named
\* vacation_{year}_{firstName}_{lastName}.ics
generate_ics(self, include_weekends) ==
    [name |-> <<self.year, self.vacation_config.firstName,
                self.vacation_config.lastName>>,
     include_weekends |-> include_weekends,
     events |-> YearEvents(self, include_weekends, 1)]

(***************************************************************************)
(* The documents explored.                                                 *)
(***************************************************************************)
Years == {2024, 2025}

SeqsUpTo(S, n) == UNION {[1..k -> S] : k \in 0..n}

JsonInt(v) == [type |-> "int", val |-> v]
JsonStr(v) == [type |-> "str", val |-> v]
JsonList(v) == [type |-> "list", val |-> v]
\* a JSON object that is not a document: val lists its keys
JsonDict(v) == [type |-> "dict", val |-> v]

\* the str that spells a date, or what is not one, as YYYY-MM-DD
ymd(y, m, d) ==
    zfill(str(y), 4) \o <<"-">> \o zfill(str(m), 2) \o <<"-">>
        \o zfill(str(d), 2)

Block(description, start, end) ==
    [fields |-> {"description", "start", "end"},
     description |-> description, start |-> start, end |-> end]

Holiday(d, description) ==
    [fields |-> {"date", "description"}, date |-> d,
     description |-> description]

\* 2025-12-22 is a Monday, 2025-12-25 a Thursday, 2025-12-27 a Saturday
ChristmasBlock == Block("Christmas", ymd(2025, 12, 22), ymd(2025, 12, 28))
ChristmasDay == Holiday(ymd(2025, 12, 25), "Christmas Day")
NewYearBlock == Block("New year", ymd(2024, 12, 30), ymd(2025, 1, 2))
DayOffBlock == Block("Day off", ymd(2025, 12, 23), ymd(2025, 12, 23))

\* dates written without the leading zeros: "2025-1-6" is a Monday,
\* "2025-1-9" a Thursday
ShortBlock ==
    Block("Short dates", <<"2", "0", "2", "5", "-", "1", "-", "6">>,
          <<"2", "0", "2", "5", "-", "1", "-", "9">>)
ShortHoliday ==
    Holiday(<<"2", "0", "2", "5", "-", "1", "-", "6">>, "Epiphany")

GoodBlocks ==
    {ChristmasBlock,
     DayOffBlock,
     Block("Saturday", ymd(2025, 12, 27), ymd(2025, 12, 27)),
     NewYearBlock}

BadBlocks ==
    {Block("Reversed", ymd(2025, 12, 28), ymd(2025, 12, 22)),
     Block("Bad start", ymd(2025, 13, 40), ymd(2025, 12, 28)),
     Block("Bad end", ymd(2025, 2, 28), ymd(2025, 2, 29)),
     Block("Two-digit year", <<"2", "5", "-", "1", "2", "-", "2", "2">>,
           ymd(2025, 12, 28)),
     [ChristmasBlock EXCEPT !.fields = {"start", "end"}],
     [ChristmasBlock EXCEPT !.fields = {"description", "end"}],
     [ChristmasBlock EXCEPT !.fields = {"description", "start"}]}

SaturdayHoliday == Holiday(ymd(2025, 12, 27), "Saturday holiday")

GoodHolidays ==
    {ChristmasDay,
     SaturdayHoliday,
     Holiday(ymd(2025, 12, 23), "Local holiday")}

BadHolidays ==
    {Holiday(ymd(2025, 13, 40), "Bad date"),
     Holiday(<<"2", "0", "2", "5", "-", "0", "1", "2", "-", "2", "5">>,
             "Three-digit month"),
     [ChristmasDay EXCEPT !.fields = {"description"}],
     [ChristmasDay EXCEPT !.fields = {"date"}]}

\* the regions of the documents: the vacation file says "Bern"; a holiday
\* file says "bern", "Kanton Bern" or "Zurich"
Bern == <<"B", "e", "r", "n">>
bern == <<"b", "e", "r", "n">>
KantonBern == <<"K", "a", "n", "t", "o", "n", " ", "B", "e", "r", "n">>
Zurich == <<"Z", "u", "r", "i", "c", "h">>

VacationFields == {"firstName", "lastName", "year", "region", "vacationBlocks"}
HolidayFields == {"region", "year", "holidays"}

VacationDoc(year, blocks) ==
    [fields |-> VacationFields, firstName |-> "Ada", lastName |-> "Muster",
     year |-> year, region |-> Bern, vacationBlocks |-> blocks]

HolidayDoc(year, holidays) ==
    [fields |-> HolidayFields, region |-> bern, year |-> year,
     holidays |-> holidays]

\* years the Gregorian century rule decides: 2000 is a leap year, 2100 is not
CenturyYears == {2000, 2100}

GoodVacationDocs ==
    {VacationDoc(JsonInt(y), JsonList(b)) :
        y \in Years, b \in SeqsUpTo(GoodBlocks, MaxEntries)}
    \cup {VacationDoc(JsonInt(y), JsonList(b)) :
            y \in CenturyYears, b \in {<<>>, <<ChristmasBlock>>}}

GoodHolidayDocs ==
    {HolidayDoc(JsonInt(2025), JsonList(h)) :
        h \in SeqsUpTo(GoodHolidays, MaxEntries)}

\* the pairs of valid documents explored
GoodPairs ==
    {p \in GoodVacationDocs \X GoodHolidayDocs :
        Len(p[1].vacationBlocks.val) + Len(p[2].holidays.val) <= MaxEntries}

RefVacationDoc == VacationDoc(JsonInt(2025), JsonList(<<ChristmasBlock>>))
RefHolidayDoc == HolidayDoc(JsonInt(2025), JsonList(<<ChristmasDay>>))

\* vacation documents with one of the defects the validator looks for
DefectVacationDocs ==
    {[RefVacationDoc EXCEPT !.fields = VacationFields \ {f}] :
        f \in VacationFields}
    \cup {VacationDoc(JsonStr(2025), JsonList(<<ChristmasBlock>>)),
          VacationDoc(JsonInt(2025), JsonStr(<<>>)),
          VacationDoc(JsonStr(2025), JsonStr(<<>>))}
    \cup {VacationDoc(JsonInt(2025), JsonList(b)) :
            b \in {s \in SeqsUpTo(BadBlocks \cup {ChristmasBlock}, MaxBadLen) :
                      \E i \in 1..Len(s) : s[i] \in BadBlocks}}

\* holiday documents with one of the defects the validator looks for, and
\* one with a year that is not an integer, which it does not look for
DefectHolidayDocs ==
    {[RefHolidayDoc EXCEPT !.fields = HolidayFields \ {f}] :
        f \in HolidayFields}
    \cup {HolidayDoc(JsonInt(2025), JsonStr(<<>>)),
          HolidayDoc(JsonStr(2025), JsonList(<<ChristmasDay>>))}
    \cup {HolidayDoc(JsonInt(2025), JsonList(h)) :
            h \in {s \in SeqsUpTo(BadHolidays \cup {ChristmasDay}, MaxBadLen) :
                      \E i \in 1..Len(s) : s[i] \in BadHolidays}}

BadRefVacationDoc ==
    VacationDoc(JsonInt(2025),
                JsonList(<<Block("Bad start", ymd(2025, 13, 40), ymd(2025, 12, 28))>>))
BadRefHolidayDoc ==
    HolidayDoc(JsonInt(2025), JsonList(<<Holiday(ymd(2025, 13, 40), "Bad date")>>))

\* holiday documents of either year and of a region equal to the vacation
\* file's up to case, containing it, or different
MismatchHolidayDocs ==
    {[HolidayDoc(JsonInt(y), JsonList(<<ChristmasDay>>)) EXCEPT !.region = r] :
        y \in Years, r \in {bern, KantonBern, Zurich}}

\* valid vacation documents of the years around the range 1..9999 of
\* datetime.date, and of its last year
EdgeYearDocs ==
    {VacationDoc(JsonInt(y), JsonList(<<>>)) : y \in {0, 9999, 10000}}

\* a second entry for 2025-12-25 with a description of its own, and the
\* holiday documents with both entries, in either order
XmasDuplicate == Holiday(ymd(2025, 12, 25), "Xmas")
DuplicateHolidayDocs ==
    {HolidayDoc(JsonInt(2025), JsonList(<<ChristmasDay, XmasDuplicate>>)),
     HolidayDoc(JsonInt(2025), JsonList(<<XmasDuplicate, ChristmasDay>>))}

\* a block over the whole year 2025
SabbaticalBlock == Block("Sabbatical", ymd(2025, 1, 1), ymd(2025, 12, 31))

\* pairs of documents with dates written without the leading zeros
ShortDatePairs ==
    {<<VacationDoc(JsonInt(2025), JsonList(<<ShortBlock>>)), RefHolidayDoc>>,
     <<VacationDoc(JsonInt(2025), JsonList(<<ShortBlock>>)),
       HolidayDoc(JsonInt(2025), JsonList(<<ShortHoliday>>))>>,
     <<RefVacationDoc, HolidayDoc(JsonInt(2025), JsonList(<<ShortHoliday>>))>>}

\* pairs of valid documents that disagree on the year, the region or both
MismatchPairs ==
    {RefVacationDoc, VacationDoc(JsonInt(2025), JsonList(<<NewYearBlock>>))}
        \X MismatchHolidayDocs

\* the pairs of documents explored
FilePairs ==
    GoodPairs
        \cup MismatchPairs
        \cup (EdgeYearDocs \X {RefHolidayDoc})
        \cup ({RefVacationDoc} \X DuplicateHolidayDocs)
        \cup ShortDatePairs
        \cup ({VacationDoc(JsonInt(2025), JsonList(<<SabbaticalBlock>>))}
                  \X {RefHolidayDoc})
        \cup (DefectVacationDocs \X {RefHolidayDoc, BadRefHolidayDoc})
        \cup ({RefVacationDoc, BadRefVacationDoc} \X DefectHolidayDocs)

\* iCalendar files, as the components walk() yields: the calendar itself
\* and its events, each with the date of its DTSTART and the text of its
\* SUMMARY, None where the property is absent
VCalendar == [name |-> "VCALENDAR", dtstart |-> None, summary |-> None]
VEvent(dtstart, summary) ==
    [name |-> "VEVENT", dtstart |-> dtstart, summary |-> summary]
ICal(events) == [components |-> <<VCalendar>> \o events]

\* Christmas 2025 and New Year 2026; a calendar without events; an event
\* without SUMMARY; an event without DTSTART
RefICal ==
    ICal(<<VEvent(date(2026, 1, 1), Some("New Year")),
           VEvent(date(2025, 12, 25), Some("Christmas Day"))>>)
EmptyICal == ICal(<<>>)
NoSummaryICal == ICal(<<VEvent(date(2025, 12, 25), None)>>)
NoStartICal == ICal(<<VEvent(None, Some("Christmas Day"))>>)

\* the names of holiday files explored as path arguments
Name_holidays_txt == <<"h", "o", "l", "i", "d", "a", "y", "s", ".", "t", "x", "t">>
Name_holidays_JSON == <<"h", "o", "l", "i", "d", "a", "y", "s", ".", "J", "S", "O", "N">>
Name_holidays == <<"h", "o", "l", "i", "d", "a", "y", "s">>
Name_bern_ics == bern \o dot_ics

\* the path arguments: the name and whether a file is there
HolidayPath(name, exists) == Some([name |-> name, exists |-> exists])
JsonPath(exists) == HolidayPath(HolidayFileName(bern, 2025), exists)

\* the files a constructor's path argument names, and the files the
\* configuration directory holds when a path is given
DirVacationDoc == VacationDoc(JsonInt(2025), JsonList(<<DayOffBlock>>))
DirHolidayDoc ==
    HolidayDoc(JsonInt(2025),
               JsonList(<<Holiday(ymd(2025, 12, 23), "Local holiday")>>))
PathVacationDocs == {RefVacationDoc, BadRefVacationDoc}
PathHolidayDocs == {RefHolidayDoc, BadRefHolidayDoc}

\* the directory listing with one vacation file and one holiday file
SingleFileDir(vacation_doc, holiday_doc) ==
    [vacation |-> <<vacation_doc>>,
     holiday |-> <<[name |-> HolidayFileName(bern, 2025), doc |-> holiday_doc]>>]

\* the documents of the runs without path arguments: blocks that overlap,
\* in both orders, a block across the turn of the year, holidays on a
\* Thursday and on a Saturday, the years datetime.date ends at, a region
\* that does not match, and a document of each kind that does not validate
AppVacationDocs ==
    {VacationDoc(JsonInt(y), JsonList(b)) :
        y \in Years,
        b \in {<<>>, <<ChristmasBlock>>, <<NewYearBlock>>,
               <<ChristmasBlock, DayOffBlock>>, <<DayOffBlock, ChristmasBlock>>}}
    \cup EdgeYearDocs \cup {BadRefVacationDoc}
AppHolidayDocs ==
    {HolidayDoc(JsonInt(2025), JsonList(h)) :
        h \in {<<>>, <<ChristmasDay>>, <<SaturdayHoliday>>,
               <<ChristmasDay, SaturdayHoliday>>}}
    \cup {[RefHolidayDoc EXCEPT !.region = Zurich], BadRefHolidayDoc}

\* the orders a glob can list the files of a set in
Orders(files) ==
    {s \in [1..Cardinality(files) -> files] :
        \A i, j \in DOMAIN s : i # j => s[i] # s[j]}

\* directories the loaders prompt over: two vacation files, one of them
\* invalid, or two holiday files named after another region, one of them
\* invalid, listed in either order
PromptDirs ==
    {[vacation |-> v,
      holiday |-> SingleFileDir(RefVacationDoc, RefHolidayDoc).holiday] :
        v \in Orders({BadRefVacationDoc, RefVacationDoc})}
    \cup
    {[vacation |-> <<RefVacationDoc>>, holiday |-> h] :
        h \in Orders({[name |-> HolidayFileName(lower(Zurich), 2024),
                       doc |-> BadRefHolidayDoc],
                      [name |-> HolidayFileName(lower(Zurich), 2026),
                       doc |-> RefHolidayDoc]})}

\* a holiday_config_path whose name decides the loader: names that end
\* with neither '.json' nor '.ics', with and without a file, a '.json'
\* name over an iCalendar text, and '.ics' names over calendars, over a
\* JSON document and over no file
NamedHolidayPaths ==
    {[path |-> HolidayPath(Name_holidays_txt, TRUE), file |-> RefHolidayDoc],
     [path |-> HolidayPath(Name_holidays_txt, FALSE), file |-> RefHolidayDoc],
     [path |-> HolidayPath(Name_holidays_JSON, TRUE), file |-> RefHolidayDoc],
     [path |-> HolidayPath(Name_holidays, TRUE), file |-> RefHolidayDoc],
     [path |-> HolidayPath(<<>>, FALSE), file |-> RefHolidayDoc],
     [path |-> JsonPath(TRUE), file |-> RefICal],
     [path |-> HolidayPath(Name_bern_ics, TRUE), file |-> RefICal],
     [path |-> HolidayPath(Name_bern_ics, TRUE), file |-> EmptyICal],
     [path |-> HolidayPath(Name_bern_ics, TRUE), file |-> NoSummaryICal],
     [path |-> HolidayPath(Name_bern_ics, TRUE), file |-> NoStartICal],
     [path |-> HolidayPath(Name_bern_ics, TRUE), file |-> RefHolidayDoc],
     [path |-> HolidayPath(Name_bern_ics, FALSE), file |-> RefICal]}

\* the constructions explored: without path arguments over a directory
\* that holds one vacation and one holiday file, and with one or two path
\* arguments, naming a file or a path where there is none, over a
\* directory that holds other files, or none, without path arguments
\* over a directory with two files of a kind, with a vacation path
\* where there is no file over a directory with two vacation files, and
\* with a holiday path of each kind of name over a directory that holds
\* another holiday file, or none
Constructions ==
    {[vacation_config_path |-> "none", holiday_config_path |-> None,
      vacation_file |-> p[1], holiday_file |-> p[2],
      conf_dir |-> SingleFileDir(p[1], p[2])] :
        p \in AppVacationDocs \X AppHolidayDocs}
    \cup
    {c \in [vacation_config_path : {"none", "missing", "file"},
            holiday_config_path : {None, JsonPath(FALSE), JsonPath(TRUE)},
            vacation_file : PathVacationDocs,
            holiday_file : PathHolidayDocs,
            conf_dir : {[vacation |-> v, holiday |-> h] :
                           v \in {<<>>, SingleFileDir(DirVacationDoc,
                                                      DirHolidayDoc).vacation},
                           h \in {<<>>, SingleFileDir(DirVacationDoc,
                                                      DirHolidayDoc).holiday}}] :
        /\ c.vacation_config_path # "none" \/ c.holiday_config_path # None
        /\ c.vacation_config_path # "file" => c.vacation_file = RefVacationDoc
        /\ c.holiday_config_path # JsonPath(TRUE)
              => c.holiday_file = RefHolidayDoc}
    \cup
    {[vacation_config_path |-> "none", holiday_config_path |-> None,
      vacation_file |-> RefVacationDoc, holiday_file |-> RefHolidayDoc,
      conf_dir |-> d] : d \in PromptDirs}
    \cup
    {[vacation_config_path |-> "missing", holiday_config_path |-> h,
      vacation_file |-> RefVacationDoc, holiday_file |-> RefHolidayDoc,
      conf_dir |-> d] :
        h \in {None, JsonPath(FALSE)},
        d \in {e \in PromptDirs : Len(e.vacation) > 1}}
    \cup
    {[vacation_config_path |-> "file", holiday_config_path |-> n.path,
      vacation_file |-> RefVacationDoc, holiday_file |-> n.file,
      conf_dir |-> [vacation |-> <<>>, holiday |-> h]] :
        n \in NamedHolidayPaths,
        h \in {<<>>, SingleFileDir(DirVacationDoc, DirHolidayDoc).holiday}}

\* the arguments get_day_info is called with: Thursday 2025-12-25, Saturday
\* 2025-12-27, Tuesday 2025-12-23 and a padding cell
QueryArgs ==
    {<<2025, 12, 25>>, <<2025, 12, 27>>, <<2025, 12, 23>>, <<2025, 12, 0>>}

\* the lines typed at a prompt: not a number, or one of the numbers 0..3
StdinLines == {None, Some(0), Some(1), Some(2), Some(3)}
Stdin == SeqsUpTo(StdinLines, MaxInputs)

(***************************************************************************)
(* ConfigManager loaders.  The path argument of load_vacation_config is    *)
(* None when the caller passes none, Some(None) when no file exists at it  *)
(* and Some(Some(doc)) when the file there holds the JSON document doc.    *)
(* The path of a holiday file is a record of its name and of the file      *)
(* there, None where no file is.  The directory lists its holiday files by *)
(* name, the matches of holidays-*.json ahead of those of *.ics, each glob *)
(* in an order the code does not fix.  A line typed at a prompt is None    *)
(* when int() rejects it and Some(n) when it spells the number n, and      *)
(* stdin ends after the last line.  Every error a validator raises is a    *)
(* ValueError.                                                             *)
(***************************************************************************)
\* the `with open(...)` body of load_vacation_config: json.load, validate,
\* return the document or raise
LoadVacationFile(file) ==
    LET r == _validate_vacation_config(file)
    IN  [outcome |-> r, config |-> IF r = "ok" THEN Some(file) ELSE None]

\* the `while True` prompt of load_vacation_config: a ValueError, the
\* validator's included, is answered with a message and the next prompt;
\* input() raises EOFError when stdin has ended
RECURSIVE VacationPrompt(_, _)
VacationPrompt(config_files, inputs) ==
    IF inputs = <<>> THEN [outcome |-> "EOFError", config |-> None]
    ELSE IF Head(inputs) = None THEN VacationPrompt(config_files, Tail(inputs))
    ELSE LET choice == Val(Head(inputs)) - 1
         IN  IF 0 <= choice /\ choice < Len(config_files)
             THEN LET r == LoadVacationFile(config_files[choice + 1])
                  IN  IF r.outcome = "ok" THEN r
                      ELSE VacationPrompt(config_files, Tail(inputs))
             ELSE VacationPrompt(config_files, Tail(inputs))

\* ConfigManager.load_vacation_config(filepath): the outcome and the
\* returned config
load_vacation_config(filepath, config_files, inputs) ==
    IF filepath # None /\ Val(filepath) # None
    THEN LoadVacationFile(Val(Val(filepath)))
    ELSE IF config_files = <<>>
    THEN [outcome |-> "FileNotFoundError", config |-> None]
    ELSE IF Len(config_files) = 1 THEN LoadVacationFile(config_files[1])
    ELSE VacationPrompt(config_files, inputs)

\* a file that holds an iCalendar text, in the model the components
\* Calendar.from_ical(...).walk() yields, and not a JSON document
IsICal(content) == "components" \in DOMAIN content

\* the path of a file the directory lists
PathOf(listed) == [name |-> listed.name, file |-> Some(listed.doc)]

\* ConfigManager._load_json_holiday_file(filepath): open raises
\* FileNotFoundError where no file is, json.load raises JSONDecodeError
\* on a text that is not JSON, answered with a ValueError
_load_json_holiday_file(filepath) ==
    IF filepath.file = None
    THEN [outcome |-> "FileNotFoundError", config |-> None]
    ELSE IF IsICal(Val(filepath.file))
    THEN [outcome |-> "InvalidJson", config |-> None]
    ELSE LET r == _validate_holiday_config(Val(filepath.file))
         IN  [outcome |-> r,
              config |-> IF r = "ok" THEN filepath.file ELSE None]

\* str(component.get('summary')): the text, 'None' without a SUMMARY
SummaryText(summary) == IF summary = None THEN "None" ELSE Val(summary)

\* the config _load_ical_holiday_file builds from the VEVENT components:
\* the region is the file name without '.ics', the year the least year of
\* the events, set only when there is an event, the holidays the events
\* in the order of the file
ICalConfig(name, events) ==
    LET years == {_ord2ymd(Val(events[i].dtstart))[1] : i \in DOMAIN events}
    IN  [fields |-> IF years = {} THEN {"region", "holidays"}
                    ELSE {"region", "year", "holidays"},
         region |-> replace(name, dot_ics, <<>>),
         year |-> [type |-> "int",
                   val |-> IF years = {} THEN 0
                           ELSE CHOOSE y \in years : \A z \in years : y <= z],
         holidays |->
             [type |-> "list",
              val |-> [i \in DOMAIN events |->
                          [fields |-> {"date", "description"},
                           date |-> strftime(Val(events[i].dtstart)),
                           description |-> SummaryText(events[i].summary)]]]]

\* ConfigManager._load_ical_holiday_file(filepath): every exception, that
\* of open, of Calendar.from_ical on a text that is no calendar, of
\* `.dt` on the None of an event without DTSTART, and of the validator,
\* is answered with ValueError('Invalid iCal format ...')
_load_ical_holiday_file(filepath) ==
    IF filepath.file = None \/ ~IsICal(Val(filepath.file))
    THEN [outcome |-> "InvalidICal", config |-> None]
    ELSE LET is_event(component) == component.name = "VEVENT"
             events == SelectSeq(Val(filepath.file).components, is_event)
         IN  IF \E i \in DOMAIN events : events[i].dtstart = None
             THEN [outcome |-> "InvalidICal", config |-> None]
             ELSE LET config == ICalConfig(filepath.name, events)
                  IN  IF _validate_holiday_config(config) = "ok"
                      THEN [outcome |-> "ok", config |-> Some(config)]
                      ELSE [outcome |-> "InvalidICal", config |-> None]

\* `if selected_file.endswith('.json'): ... elif selected_file.endswith(
\* '.ics'): ...` on a file of the listing, whose name the globs
\* holidays-*.json and *.ics matched; json_match and ical_match, loaded
\* by _load_json_holiday_file and _load_ical_holiday_file, end that way
LoadSelected(selected_file) ==
    IF endswith(selected_file.name, dot_json)
    THEN _load_json_holiday_file(PathOf(selected_file))
    ELSE _load_ical_holiday_file(PathOf(selected_file))

\* the `while True` prompt of load_holiday_config: `except ValueError` and
\* `except Exception` answer every exception with a message and the next
\* prompt, the EOFError of input() included, so the call never returns
\* once stdin has ended
RECURSIVE HolidayPrompt(_, _)
HolidayPrompt(holiday_files, inputs) ==
    IF inputs = <<>> THEN [outcome |-> "no return", config |-> None]
    ELSE IF Head(inputs) = None THEN HolidayPrompt(holiday_files, Tail(inputs))
    ELSE LET choice == Val(Head(inputs)) - 1
         IN  IF 0 <= choice /\ choice < Len(holiday_files)
             THEN LET r == LoadSelected(holiday_files[choice + 1])
                  IN  IF r.outcome = "ok" THEN r
                      ELSE HolidayPrompt(holiday_files, Tail(inputs))
             ELSE HolidayPrompt(holiday_files, Tail(inputs))

\* the position in the listing of the file named holidays-{region}-{year}.json
ExactMatches(region, year, holiday_files) ==
    {i \in 1..Len(holiday_files) :
        holiday_files[i].name = HolidayFileName(lower(region), year)}

\* the position in the listing of the file named holidays-{region}-{year}.ics
ICalMatches(region, year, holiday_files) ==
    {i \in 1..Len(holiday_files) :
        holiday_files[i].name = HolidayICalName(lower(region), year)}

\* the positions of the files whose lowered name holds the region and the year
potential_matches(region, year, holiday_files) ==
    {i \in 1..Len(holiday_files) :
        /\ Contains(lower(holiday_files[i].name), lower(region))
        /\ Contains(lower(holiday_files[i].name), str(year))}

Min(S) == CHOOSE i \in S : \A j \in S : i <= j

\* ConfigManager.load_holiday_config(region, year); region and year are
\* None or Some(value)
load_holiday_config(region, year, holiday_files, inputs) ==
    LET named == /\ region # None /\ Val(region) # <<>>
                 /\ year # None /\ Val(year) # 0
        exact == IF named
                 THEN ExactMatches(Val(region), Val(year), holiday_files)
                 ELSE {}
        ical == IF named
                THEN ICalMatches(Val(region), Val(year), holiday_files)
                ELSE {}
        partial == IF named
                   THEN potential_matches(Val(region), Val(year), holiday_files)
                   ELSE {}
        \* the position of the file loaded without a prompt, 0 for none:
        \* json_match, else ical_match, else the first of
        \* potential_matches, else the only file
        selected == IF exact # {} THEN Min(exact)
                    ELSE IF ical # {} THEN Min(ical)
                    ELSE IF partial # {} THEN Min(partial)
                    ELSE IF Len(holiday_files) = 1 THEN 1
                    ELSE 0
    IN  IF holiday_files = <<>>
        THEN [outcome |-> "FileNotFoundError", config |-> None]
        ELSE IF selected # 0
        THEN LoadSelected(holiday_files[selected])
        ELSE HolidayPrompt(holiday_files, inputs)

(***************************************************************************)
(* VacationPlanerApp.                                                      *)
(***************************************************************************)
\* the path a constructor argument names: "none" is no argument, "missing"
\* a path where no file exists, "file" the path of the given file
PathArg(arg, file) ==
    CASE arg = "none" -> None
      [] arg = "missing" -> Some(None)
      [] arg = "file" -> Some(Some(file))

\* the path a holiday_config_path argument names: None without the
\* argument, else the name and the file there, None where no file is
HolidayPathArg(arg, file) ==
    IF arg = None THEN None
    ELSE Some([name |-> Val(arg).name,
               file |-> IF Val(arg).exists THEN Some(file) ELSE None])

\* VacationPlanerApp.load_holiday_config(path): a path is loaded directly,
\* by the loader its name ends with, and a name that ends with neither
\* '.json' nor '.ics' raises ValueError; without a path, or with the
\* empty one, the region and the year of the loaded vacation config
\* select the file
AppLoadHolidayConfig(path, vcfg, holiday_files, inputs) ==
    IF path # None /\ Val(path).name # <<>>
    THEN IF endswith(Val(path).name, dot_json)
         THEN _load_json_holiday_file(Val(path))
         ELSE IF endswith(Val(path).name, dot_ics)
         THEN _load_ical_holiday_file(Val(path))
         ELSE [outcome |-> "UnsupportedFormat", config |-> None]
    ELSE load_holiday_config(
             IF vcfg # None THEN Some(Val(vcfg).region) ELSE None,
             IF vcfg # None THEN Some(Val(vcfg).year.val) ELSE None,
             holiday_files, inputs)

\* VacationPlanerApp._validate_configs with a year mismatch made an error
_validate_configs_Strict(vcfg, hcfg) ==
    IF vcfg = None \/ hcfg = None
    THEN [outcome |-> "ValueError", warnings |-> {}]
    ELSE IF Val(vcfg).year # Val(hcfg).year
    THEN [outcome |-> "ValueError", warnings |-> {}]
    ELSE [outcome |-> "ok", warnings |-> {}]

\* VacationPlanerApp._validate_configs: raises when a config is missing;
\* a year or region mismatch is a warning
_validate_configs(vcfg, hcfg) ==
    IF vcfg = None \/ hcfg = None
    THEN [outcome |-> "ValueError", warnings |-> {}]
    ELSE LET v_year == Val(vcfg).year
             h_year == Val(hcfg).year
             v_region == lower(Val(vcfg).region)
             h_region == lower(Val(hcfg).region)
         IN  [outcome |-> "ok",
              warnings |->
                  (IF v_year # h_year THEN {"Year mismatch"} ELSE {})
                  \cup (IF ~Contains(h_region, v_region)
                           /\ ~Contains(v_region, h_region)
                        THEN {"Region mismatch"} ELSE {})]

\* what a caller types when a call prompts: with fewer than two candidate
\* files nothing is asked
StdinFor(files) == IF Len(files) > 1 THEN Stdin ELSE {<<>>}

Init ==
    /\ \E files \in FilePairs :
          /\ vacation_file = files[1]
          /\ holiday_file = files[2]
    /\ vacation_config_path = "none"
    /\ holiday_config_path = None
    /\ conf_dir = SingleFileDir(vacation_file, holiday_file)
    /\ vacation_config = None
    /\ holiday_config = None
    /\ vacation_outcome = "not called"
    /\ holiday_outcome = "not called"
    /\ calendar_manager = None
    /\ initialized = "not called"
    /\ day_info = None
    /\ stats = None
    /\ stats_error = None
    /\ load_call = None
    /\ cli_args = None
    /\ ics_file = None
    /\ viz_files = None
    /\ app_outcome = "not called"

\* VacationPlanerApp.load_vacation_config(path) with the path of the
\* vacation file: keeps the config the loader returns; when the loader
\* raises the field is not assigned
LoadVacationConfig ==
    /\ initialized = "not called"
    /\ vacation_config = None
    /\ LET r == load_vacation_config(Some(Some(vacation_file)),
                                     conf_dir.vacation, <<>>)
       IN  /\ vacation_outcome' = r.outcome
           /\ vacation_config' =
                 IF r.outcome = "ok" THEN r.config ELSE vacation_config
    /\ UNCHANGED <<vacation_file, holiday_file, holiday_config,
                   holiday_outcome, calendar_manager, initialized,
                   day_info, stats, stats_error, others, outputs>>

\* VacationPlanerApp.load_holiday_config(path) with the path of the
\* directory's holiday file
LoadHolidayConfig ==
    /\ initialized = "not called"
    /\ holiday_config = None
    /\ LET r == AppLoadHolidayConfig(Some(PathOf(conf_dir.holiday[1])),
                                     vacation_config, conf_dir.holiday, <<>>)
       IN  /\ holiday_outcome' = r.outcome
           /\ holiday_config' =
                 IF r.outcome = "ok" THEN r.config ELSE holiday_config
    /\ UNCHANGED <<vacation_file, holiday_file, vacation_config,
                   vacation_outcome, calendar_manager, initialized,
                   day_info, stats, stats_error, others, outputs>>

\* VacationPlanerApp.initialize with what is typed at its prompts: loads
\* what is not loaded yet, without a path, checks the two configs against
\* each other, builds the CalendarManager and returns True; any exception
\* makes it return False and leaves what was assigned before it
initialize(inputs_v, inputs_h) ==
    \E rv \in {IF vacation_config = None
               THEN load_vacation_config(None, conf_dir.vacation, inputs_v)
               ELSE [outcome |-> "ok", config |-> vacation_config]} :
    \E rh \in {IF holiday_config = None
               THEN AppLoadHolidayConfig(None, rv.config, conf_dir.holiday,
                                         inputs_h)
               ELSE [outcome |-> "ok", config |-> holiday_config]} :
        IF rv.outcome # "ok"
        THEN /\ vacation_outcome' = rv.outcome
             /\ initialized' = "False"
             /\ UNCHANGED <<vacation_config, holiday_config,
                            holiday_outcome, calendar_manager>>
        ELSE IF rh.outcome # "ok"
        THEN /\ vacation_config' = rv.config
             /\ vacation_outcome' =
                   IF vacation_config = None THEN "ok" ELSE vacation_outcome
             /\ holiday_outcome' = rh.outcome
             /\ initialized' =
                   IF rh.outcome = "no return" THEN "no return" ELSE "False"
             /\ UNCHANGED <<holiday_config, calendar_manager>>
        ELSE \E vr \in {_validate_configs(rv.config, rh.config)} :
             \E cm \in {IF vr.outcome = "ok"
                        THEN CalendarManager(Val(rv.config).year.val,
                                             Val(rh.config), Val(rv.config))
                        ELSE None} :
                 /\ vacation_config' = rv.config
                 /\ holiday_config' = rh.config
                 /\ vacation_outcome' =
                       IF vacation_config = None THEN "ok"
                       ELSE vacation_outcome
                 /\ holiday_outcome' =
                       IF holiday_config = None THEN "ok"
                       ELSE holiday_outcome
                 /\ calendar_manager' = cm
                 /\ initialized' = IF cm = None THEN "False" ELSE "True"

\* a call of VacationPlanerApp.initialize()
Initialize ==
    /\ initialized = "not called"
    /\ \E inputs_v \in StdinFor(conf_dir.vacation),
          inputs_h \in StdinFor(conf_dir.holiday) :
          initialize(inputs_v, inputs_h)
    /\ UNCHANGED <<vacation_file, holiday_file, day_info, stats, stats_error,
                   others, outputs>>

\* GetDayInfo with a call that empties the manager's list of holidays
GetDayInfo_ForgetsHolidays ==
    /\ calendar_manager # None
    /\ \E a \in QueryArgs :
          day_info' = Some([args |-> a,
                            result |-> get_day_info(Val(calendar_manager),
                                                    a[1], a[2], a[3])])
    /\ calendar_manager' =
           Some([Val(calendar_manager) EXCEPT !.holidays = <<>>])
    /\ UNCHANGED <<vacation_file, holiday_file, vacation_config,
                   holiday_config, vacation_outcome, holiday_outcome,
                   initialized, stats, stats_error, others, outputs>>

\* a call of calendar_manager.get_day_info(year, month, day)
GetDayInfo ==
    /\ calendar_manager # None
    /\ \E a \in QueryArgs :
          day_info' = Some([args |-> a,
                            result |-> get_day_info(Val(calendar_manager),
                                                    a[1], a[2], a[3])])
    /\ UNCHANGED <<vacation_file, holiday_file, vacation_config,
                   holiday_config, vacation_outcome, holiday_outcome,
                   calendar_manager, initialized, stats, stats_error, others,
                   outputs>>

\* a call of calendar_manager.calculate_statistics(): the caller gets the
\* dictionary or the exception
CalculateStatistics ==
    /\ calendar_manager # None
    /\ LET r == StatisticsOutcome(Val(calendar_manager))
       IN  IF r = "ok"
           THEN /\ stats' = Some(calculate_statistics(Val(calendar_manager)))
                /\ stats_error' = None
           ELSE /\ stats_error' = Some(r)
                /\ UNCHANGED stats
    /\ UNCHANGED <<vacation_file, holiday_file, vacation_config,
                   holiday_config, vacation_outcome, holiday_outcome,
                   calendar_manager, initialized, day_info, others, outputs>>

Next ==
    \/ LoadVacationConfig
    \/ LoadHolidayConfig
    \/ Initialize
    \/ GetDayInfo
    \/ CalculateStatistics

Spec == Init /\ [][Next]_vars

(***************************************************************************)
(* A run of the application: the constructor with its path arguments,      *)
(* initialize, the calls that write the output files, and run.  The        *)
(* picture create_visualization draws is not modelled, only that its files *)
(* are written, under the name vacation_{year}_{firstName}_{lastName}.     *)
(***************************************************************************)
\* the constructor's `if vacation_config_path: try: ... except Exception`:
\* the load is tried and what it raises is logged; a path without a file
\* makes the loader list the directory and prompt over two or more files
ConstructorLoadVacation(arg, file, config_files, inputs) ==
    IF arg = "none" THEN [outcome |-> "not called", config |-> None]
    ELSE load_vacation_config(PathArg(arg, file), config_files, inputs)

\* the constructor's `if holiday_config_path: try: ... except Exception`;
\* with a path the file is opened directly and nothing is asked
ConstructorLoadHoliday(arg, file, vcfg, holiday_files) ==
    IF arg = None \/ Val(arg).name = <<>>
    THEN [outcome |-> "not called", config |-> None]
    ELSE AppLoadHolidayConfig(HolidayPathArg(arg, file), vcfg, holiday_files,
                              <<>>)

\* the application after VacationPlanerApp(conf_path, output_path,
\* vacation_config_path, holiday_config_path)
InitApp ==
    /\ \E c \in Constructions :
          /\ vacation_config_path = c.vacation_config_path
          /\ holiday_config_path = c.holiday_config_path
          /\ vacation_file = c.vacation_file
          /\ holiday_file = c.holiday_file
          /\ conf_dir = c.conf_dir
    /\ \E inputs \in StdinFor(conf_dir.vacation) :
          LET rv == ConstructorLoadVacation(vacation_config_path,
                                            vacation_file, conf_dir.vacation,
                                            inputs)
              rh == ConstructorLoadHoliday(holiday_config_path, holiday_file,
                                           rv.config, conf_dir.holiday)
          IN  /\ vacation_config = rv.config
              /\ vacation_outcome = rv.outcome
              /\ holiday_config = rh.config
              /\ holiday_outcome = rh.outcome
    /\ calendar_manager = None
    /\ initialized = "not called"
    /\ day_info = None
    /\ stats = None
    /\ stats_error = None
    /\ load_call = None
    /\ cli_args = None
    /\ ics_file = None
    /\ viz_files = None
    /\ app_outcome = "not called"

\* how Visualizer.create_visualization ends: calculate_statistics comes
\* first and what it raises passes through; _visualize_month then calls
\* get_day_info on every cell of the year
VisualizationOutcome(self) ==
    IF StatisticsOutcome(self) # "ok" THEN StatisticsOutcome(self)
    ELSE IF DayInfoRaises(self) THEN "KeyError"
    ELSE "ok"

\* the base name of the output files
OutputName(self) ==
    <<self.year, self.vacation_config.firstName, self.vacation_config.lastName>>

\* raise ValueError("Application not initialized. Call initialize() first.")
NotInitialized == "ValueError: Application not initialized"

\* CreateVisualization without the test of self.visualizer: the call on
\* None raises AttributeError
CreateVisualization_NoGuard ==
    /\ cli_args = None
    /\ viz_files = None
    /\ IF initialized # "True"
       THEN /\ app_outcome' = "AttributeError"
            /\ UNCHANGED viz_files
       ELSE LET r == VisualizationOutcome(Val(calendar_manager))
            IN  IF r = "ok"
                THEN /\ viz_files' = Some(OutputName(Val(calendar_manager)))
                     /\ app_outcome' = "ok"
                ELSE /\ app_outcome' = r
                     /\ UNCHANGED viz_files
    /\ UNCHANGED <<vacation_file, holiday_file, vacation_config,
                   holiday_config, vacation_outcome, holiday_outcome,
                   calendar_manager, initialized, day_info, stats,
                   stats_error, others, ics_file>>

\* VacationPlanerApp.create_visualization, called while no picture is
\* written yet: raises ValueError before initialize has succeeded; the
\* visualizer computes the statistics, draws and saves the picture
CreateVisualization ==
    /\ cli_args = None
    /\ viz_files = None
    /\ IF initialized # "True"
       THEN /\ app_outcome' = NotInitialized
            /\ UNCHANGED viz_files
       ELSE LET r == VisualizationOutcome(Val(calendar_manager))
            IN  IF r = "ok"
                THEN /\ viz_files' = Some(OutputName(Val(calendar_manager)))
                     /\ app_outcome' = "ok"
                ELSE /\ app_outcome' = r
                     /\ UNCHANGED viz_files
    /\ UNCHANGED <<vacation_file, holiday_file, vacation_config,
                   holiday_config, vacation_outcome, holiday_outcome,
                   calendar_manager, initialized, day_info, stats,
                   stats_error, others, ics_file>>

\* VacationPlanerApp.create_ics(include_weekends), called while no
\* calendar file is written yet: raises ValueError before initialize has
\* succeeded; the generator writes the file
CreateIcs ==
    /\ cli_args = None
    /\ ics_file = None
    /\ \E include_weekends \in BOOLEAN :
          IF initialized # "True"
          THEN /\ app_outcome' = NotInitialized
               /\ UNCHANGED ics_file
          ELSE LET r == GenerateOutcome(Val(calendar_manager), include_weekends)
               IN  IF r = "ok"
                   THEN /\ ics_file' = Some(generate_ics(Val(calendar_manager),
                                                         include_weekends))
                        /\ app_outcome' = "ok"
                   ELSE /\ app_outcome' = r
                        /\ UNCHANGED ics_file
    /\ UNCHANGED <<vacation_file, holiday_file, vacation_config,
                   holiday_config, vacation_outcome, holiday_outcome,
                   calendar_manager, initialized, day_info, stats,
                   stats_error, others, viz_files>>

\* VacationPlanerApp.run(create_viz, create_ics, show_viz): initialize,
\* sys.exit(1) when it failed, then create_visualization and create_ics(),
\* which includes the weekends; an exception of either ends the run
run(create_viz, create_ics, inputs_v, inputs_h) ==
    /\ initialize(inputs_v, inputs_h)
    /\ IF initialized' # "True"
       THEN /\ app_outcome' =
                  IF initialized' = "no return" THEN "no return"
                  ELSE "SystemExit"
            /\ UNCHANGED <<viz_files, ics_file>>
       ELSE LET cm == Val(calendar_manager')
                viz == IF create_viz THEN VisualizationOutcome(cm)
                       ELSE "ok"
                ics == IF create_ics THEN GenerateOutcome(cm, TRUE)
                       ELSE "ok"
            IN  IF viz # "ok"
                THEN /\ app_outcome' = viz
                     /\ UNCHANGED <<viz_files, ics_file>>
                ELSE /\ viz_files' = IF create_viz
                                     THEN Some(OutputName(cm))
                                     ELSE viz_files
                     /\ app_outcome' = ics
                     /\ ics_file' = IF create_ics /\ ics = "ok"
                                    THEN Some(generate_ics(cm, TRUE))
                                    ELSE ics_file

Run ==
    /\ initialized = "not called"
    /\ \E create_viz \in BOOLEAN, create_ics \in BOOLEAN,
          inputs_v \in StdinFor(conf_dir.vacation),
          inputs_h \in StdinFor(conf_dir.holiday) :
          run(create_viz, create_ics, inputs_v, inputs_h)
    /\ UNCHANGED <<vacation_file, holiday_file, day_info, stats, stats_error,
                   others>>

\* the command lines explored, as <<--no-viz, --no-ics, --include-weekends>>:
\* with and without --include-weekends, and with each output switched off
CommandLines ==
    {<<FALSE, FALSE, FALSE>>, <<FALSE, FALSE, TRUE>>,
     <<TRUE, FALSE, FALSE>>, <<FALSE, TRUE, TRUE>>}

\* main() of vacationplaner-cli.py on the constructed application: the
\* options --no-viz and --no-ics become run's create_viz and create_ics;
\* args.include_weekends is parsed and not read again.  An Exception of
\* run is answered with exit status 1; SystemExit passes through with the
\* status 1 of sys.exit(1).  The process ends with main(), so no method of
\* the application is called after it
Main ==
    /\ initialized = "not called"
    /\ cli_args = None
    /\ \E <<no_viz, no_ics, include_weekends>> \in CommandLines,
          inputs_v \in StdinFor(conf_dir.vacation),
          inputs_h \in StdinFor(conf_dir.holiday) :
          /\ run(~no_viz, ~no_ics, inputs_v, inputs_h)
          /\ cli_args' =
                 Some([no_viz |-> no_viz, no_ics |-> no_ics,
                       include_weekends |-> include_weekends,
                       status |-> CASE app_outcome' = "ok" -> Some(0)
                                    [] app_outcome' = "no return" -> None
                                    [] OTHER -> Some(1)])
    /\ UNCHANGED <<vacation_file, holiday_file, day_info, stats, stats_error,
                   vacation_config_path, holiday_config_path, conf_dir,
                   load_call>>

NextApp ==
    \/ Initialize
    \/ CreateVisualization
    \/ CreateIcs
    \/ Run
    \/ Main

SpecApp == InitApp /\ [][NextApp]_vars

(***************************************************************************)
(* CalendarManager built directly from configs no validator has seen, as   *)
(* a caller of the class can: blocks and holiday entries whose dates do    *)
(* not parse, a block that ends before it starts, a block without a        *)
(* description.                                                            *)
(***************************************************************************)
DirectBlocks ==
    {ChristmasBlock,
     DayOffBlock,
     Block("Reversed", ymd(2025, 12, 28), ymd(2025, 12, 22)),
     Block("Bad start", ymd(2025, 13, 40), ymd(2025, 12, 28)),
     Block("Bad end", ymd(2025, 2, 28), ymd(2025, 2, 29)),
     [ChristmasBlock EXCEPT !.fields = {"start", "end"}]}

DirectVacationDocs ==
    {VacationDoc(JsonInt(2025), JsonList(b)) :
        b \in SeqsUpTo(DirectBlocks, MaxEntries)}
    \cup {VacationDoc(JsonInt(2025), JsonStr(<<>>)),
          VacationDoc(JsonInt(2025), JsonDict(<<>>))}

DirectHolidayDocs ==
    {HolidayDoc(JsonInt(2025), JsonList(h)) :
        h \in {<<>>, <<ChristmasDay>>,
               <<Holiday(ymd(2025, 13, 40), "Bad date"), ChristmasDay>>,
               <<ChristmasDay, Holiday(ymd(2025, 2, 29), "No such day")>>,
               <<[ChristmasDay EXCEPT !.fields = {"date"}]>>,
               <<Holiday(ymd(2025, 12, 23), "Local holiday"),
                 [ChristmasDay EXCEPT !.fields = {"date"}]>>}}
    \cup {HolidayDoc(JsonInt(2025), JsonStr(<<>>)),
          HolidayDoc(JsonInt(2025), JsonDict(<<>>))}

InitDirect ==
    /\ vacation_file \in DirectVacationDocs
    /\ holiday_file \in DirectHolidayDocs
    /\ vacation_config_path = "none"
    /\ holiday_config_path = None
    /\ conf_dir = [vacation |-> <<>>, holiday |-> <<>>]
    /\ vacation_config = None
    /\ holiday_config = None
    /\ vacation_outcome = "not called"
    /\ holiday_outcome = "not called"
    /\ calendar_manager = None
    /\ initialized = "not called"
    /\ day_info = None
    /\ stats = None
    /\ stats_error = None
    /\ load_call = None
    /\ cli_args = None
    /\ ics_file = None
    /\ viz_files = None
    /\ app_outcome = "not called"

\* CalendarManager(year, holiday_config, vacation_config) on the two
\* documents as they are: the object, or the KeyError of a key it reads
\* and the document lacks
Construct ==
    /\ app_outcome = "not called"
    /\ LET cm == CalendarManager(vacation_file.year.val, holiday_file,
                                 vacation_file)
       IN  /\ calendar_manager' = cm
           /\ app_outcome' = IF cm = None THEN "KeyError" ELSE "ok"
    /\ UNCHANGED <<vacation_file, holiday_file, vacation_config,
                   holiday_config, vacation_outcome, holiday_outcome,
                   initialized, day_info, stats, stats_error, others,
                   ics_file, viz_files>>

NextDirect ==
    \/ Construct
    \/ GetDayInfo
    \/ CalculateStatistics

SpecDirect == InitDirect /\ [][NextDirect]_vars

(***************************************************************************)
(* The loaders of ConfigManager called on their own, over configuration    *)
(* directories that hold none, one or two files of each kind.  load_call   *)
(* records the call: its arguments, the lines typed and how it ended.  The *)
(* loaders keep no state, so one call per behaviour covers them.           *)
(***************************************************************************)
\* the listings of vacation-planer*.json explored, each set of files in
\* every order
VacationListings ==
    UNION {Orders(files) :
              files \in {{}, {RefVacationDoc}, {BadRefVacationDoc},
                         {BadRefVacationDoc, RefVacationDoc},
                         {RefVacationDoc, DirVacationDoc}}}

\* the listings of holiday files explored: a JSON file named exactly after
\* region bern and year 2025, one whose name only contains them, one named
\* after another region and year, and iCalendar files named after bern and
\* 2025 exactly and in part.  The matches of holidays-*.json come in
\* every order, followed by those of *.ics in every order
HolidayListings ==
    LET exact(doc) == [name |-> HolidayFileName(bern, 2025), doc |-> doc]
        partial(doc) ==
            [name |-> HolidayFileName(lower(KantonBern), 2025), doc |-> doc]
        other(doc) == [name |-> HolidayFileName(lower(Zurich), 2024), doc |-> doc]
        ical(doc) == [name |-> HolidayICalName(bern, 2025), doc |-> doc]
        ical_partial(doc) ==
            [name |-> <<"2", "0", "2", "5", "-">> \o Name_bern_ics, doc |-> doc]
        dirs ==
            {[json |-> {}, ics |-> {}],
             [json |-> {exact(RefHolidayDoc)}, ics |-> {}],
             [json |-> {other(BadRefHolidayDoc)}, ics |-> {}],
             [json |-> {other(DirHolidayDoc), exact(BadRefHolidayDoc)},
              ics |-> {}],
             [json |-> {other(DirHolidayDoc), partial(BadRefHolidayDoc)},
              ics |-> {}],
             [json |-> {other(BadRefHolidayDoc), partial(RefHolidayDoc)},
              ics |-> {}],
             [json |-> {}, ics |-> {ical_partial(NoStartICal)}],
             [json |-> {other(DirHolidayDoc)}, ics |-> {ical(RefICal)}],
             [json |-> {other(BadRefHolidayDoc)},
              ics |-> {ical_partial(RefICal)}]}
    IN  UNION {{j \o i : j \in Orders(d.json), i \in Orders(d.ics)} :
                  d \in dirs}

\* the region and year arguments of load_holiday_config explored
RegionYearArgs ==
    {<<None, None>>, <<Some(Bern), Some(2025)>>, <<Some(Zurich), Some(2024)>>}

InitLoad ==
    /\ vacation_file \in PathVacationDocs
    /\ holiday_file = RefHolidayDoc
    /\ vacation_config_path = "none"
    /\ holiday_config_path = None
    /\ \E v \in VacationListings, h \in HolidayListings :
          conf_dir = [vacation |-> v, holiday |-> h]
    /\ vacation_config = None
    /\ holiday_config = None
    /\ vacation_outcome = "not called"
    /\ holiday_outcome = "not called"
    /\ calendar_manager = None
    /\ initialized = "not called"
    /\ day_info = None
    /\ stats = None
    /\ stats_error = None
    /\ load_call = None
    /\ cli_args = None
    /\ ics_file = None
    /\ viz_files = None
    /\ app_outcome = "not called"

\* ConfigManager.load_vacation_config(filepath)
CallLoadVacationConfig ==
    /\ load_call = None
    /\ \E arg \in {"none", "missing", "file"},
          inputs \in StdinFor(conf_dir.vacation) :
          LET filepath == PathArg(arg, vacation_file)
              r == load_vacation_config(filepath, conf_dir.vacation, inputs)
          IN  load_call' =
                  [fn |-> "load_vacation_config", filepath |-> filepath,
                   region |-> None, year |-> None, inputs |-> inputs,
                   outcome |-> r.outcome, config |-> r.config]
    /\ UNCHANGED <<vacation_file, holiday_file, vacation_config,
                   holiday_config, vacation_outcome, holiday_outcome,
                   calendar_manager, initialized, day_info, stats,
                   stats_error, vacation_config_path, holiday_config_path,
                   conf_dir, cli_args, outputs>>

\* ConfigManager.load_holiday_config(region, year)
CallLoadHolidayConfig ==
    /\ load_call = None
    /\ \E a \in RegionYearArgs, inputs \in StdinFor(conf_dir.holiday) :
          LET r == load_holiday_config(a[1], a[2], conf_dir.holiday, inputs)
          IN  load_call' =
                  [fn |-> "load_holiday_config", filepath |-> None,
                   region |-> a[1], year |-> a[2], inputs |-> inputs,
                   outcome |-> r.outcome, config |-> r.config]
    /\ UNCHANGED <<vacation_file, holiday_file, vacation_config,
                   holiday_config, vacation_outcome, holiday_outcome,
                   calendar_manager, initialized, day_info, stats,
                   stats_error, vacation_config_path, holiday_config_path,
                   conf_dir, cli_args, outputs>>

NextLoad ==
    \/ CallLoadVacationConfig
    \/ CallLoadHolidayConfig

SpecLoad == InitLoad /\ [][NextLoad]_vars

(***************************************************************************)
(* Vocabulary of the properties, stated on the documents themselves.       *)
(***************************************************************************)
\* the manager, its configured blocks and holiday entries
CM == Val(calendar_manager)
CfgBlocks == CM.vacation_config.vacationBlocks.val
CfgHolidays == CM.holiday_config.holidays.val

\* the ordinal of the date a valid date string names
Ord(date_str) == Val(strptime(date_str))

\* the ordinal of the date of the arguments (year, month, day)
OrdOf(a) == _ymd2ord(a[1], a[2], a[3])

\* The numbers a date text spells, read off the text: four digits, a
\* hyphen, one or two digits, a hyphen, and one or two digits or a blank
\* and a digit.  None for any other text.
AllDigits(s) == s # <<>> /\ \A k \in 1..Len(s) : IsDigit(s[k])

DayText(s) ==
    \/ AllDigits(s) /\ Len(s) \in {1, 2}
    \/ Len(s) = 2 /\ s[1] = " " /\ IsDigit(s[2])

TextYMD(s) ==
    LET second == {j \in {7, 8} :
                      /\ j < Len(s)
                      /\ s[5] = "-"
                      /\ s[j] = "-"
                      /\ AllDigits(SubSeq(s, 1, 4))
                      /\ AllDigits(SubSeq(s, 6, j - 1))
                      /\ DayText(SubSeq(s, j + 1, Len(s)))}
    IN  IF second = {} THEN None
        ELSE LET j == CHOOSE k \in second : TRUE
             IN  Some(<<int(SubSeq(s, 1, 4)), int(SubSeq(s, 6, j - 1)),
                        int(SubSeq(s, j + 1, Len(s)))>>)

\* the text has the form YYYY-MM-DD: four, two and two digits
IsIsoText(s) ==
    /\ Len(s) = 10
    /\ \A k \in 1..10 : IF k \in {5, 8} THEN s[k] = "-" ELSE IsDigit(s[k])

\* 2025-12-27 is a Saturday
IsSatOrSun(d) == (d - OrdOf(<<2025, 12, 27>>)) % 7 \in {0, 1}

IsConfiguredHoliday(d) ==
    \E i \in 1..Len(CfgHolidays) : strptime(CfgHolidays[i].date) = Some(d)

\* the configured blocks, by position, whose closed interval holds d
BlocksCovering(d) ==
    {i \in 1..Len(CfgBlocks) :
        Ord(CfgBlocks[i].start) <= d /\ d <= Ord(CfgBlocks[i].end)}

\* every real date of a year, as get_day_info arguments and as dates
YearArgs(y) ==
    {a \in {y} \X (1..12) \X (1..31) : IsRealDate(a[1], a[2], a[3])}
YearDays(y) == OrdOf(<<y, 1, 1>>)..OrdOf(<<y, 12, 31>>)

\* the dates the classification is probed on: every date the documents
\* name, with at least a week around each
ProbeArgs ==
    {a \in ({2025} \X {12} \X (15..31)) \cup ({2026} \X {1} \X (1..7))
           \cup ({2025} \X {1} \X (1..9)) \cup ({2024} \X {12} \X (23..31))
           \cup ({2024} \X {2} \X (26..31)) \cup ({2024} \X {3} \X (1..3)) :
        IsRealDate(a[1], a[2], a[3])}

TypeOf(a) == Val(get_day_info(CM, a[1], a[2], a[3])).type

(***************************************************************************)
(* C1.  For every real date and every pair of validated configs,           *)
(* get_day_info returns exactly one of holiday, weekend, vacation,         *)
(* weekday, by the precedence Holiday > Weekend > Vacation > Weekday:      *)
(* holiday iff the date is a configured holiday date, otherwise weekend    *)
(* iff it is a Saturday or Sunday, otherwise vacation iff it lies in some  *)
(* block, otherwise weekday.  A Saturday or Sunday inside a block that is  *)
(* not a holiday is weekend, never vacation.                               *)
(***************************************************************************)
C1_Precedence ==
    calendar_manager # None =>
        \A a \in ProbeArgs :
            LET d == OrdOf(a)
                expected ==
                    IF IsConfiguredHoliday(d) THEN "holiday"
                    ELSE IF IsSatOrSun(d) THEN "weekend"
                    ELSE IF BlocksCovering(d) # {} THEN "vacation"
                    ELSE "weekday"
            IN  /\ get_day_info(CM, a[1], a[2], a[3]) # None
                /\ TypeOf(a) = expected

\* get_day_info was called on a Saturday inside a block that is no holiday
C1_Witness ==
    /\ day_info # None
    /\ Val(day_info).args = <<2025, 12, 27>>
    /\ Val(Val(day_info).result).type = "weekend"
    /\ Val(Val(day_info).result).vacation_block # None
    /\ ~IsConfiguredHoliday(OrdOf(<<2025, 12, 27>>))

(***************************************************************************)
(* C2.  For every input combination the result of calculate_statistics     *)
(* satisfies days_off + days_at_work = workdays + weekends.                *)
(***************************************************************************)
C2_DaysIdentity ==
    stats # None =>
        Val(stats).days_off + Val(stats).days_at_work
            = Val(stats).workdays + Val(stats).weekends

(***************************************************************************)
(* C3.  With overlapping blocks a day of the year covered by k blocks     *)
(* adds k to vacation_days, and k to vacation_workdays if it is not a      *)
(* weekend: the global totals are not deduplicated across blocks.          *)
(***************************************************************************)
\* the days of the manager's year inside block i
BlockDaysInYear(i) ==
    (Ord(CfgBlocks[i].start)..Ord(CfgBlocks[i].end)) \cap YearDays(CM.year)

\* the sum over the blocks i, i+1, ... of their days in the year, or of
\* those that are not Saturday or Sunday
RECURSIVE SumBlockDays(_, _)
SumBlockDays(i, workdays_only) ==
    IF i > Len(CfgBlocks) THEN 0
    ELSE Cardinality({d \in BlockDaysInYear(i) :
                         workdays_only => ~IsSatOrSun(d)})
             + SumBlockDays(i + 1, workdays_only)

C3_CountedPerBlock ==
    stats # None =>
        /\ Val(stats).vacation_days = SumBlockDays(1, FALSE)
        /\ Val(stats).vacation_workdays = SumBlockDays(1, TRUE)

(***************************************************************************)
(* What calculate_statistics does on overlapping blocks, against C3: the   *)
(* year loop tests membership in the set vacation_block_days, so a day of  *)
(* the year covered by one or more blocks adds exactly 1 to vacation_days, *)
(* and exactly 1 to vacation_workdays if it is not a weekend, however many *)
(* blocks cover it.                                                        *)
(***************************************************************************)
C3_CountedOnce ==
    stats # None =>
        LET covered == {d \in YearDays(CM.year) : BlocksCovering(d) # {}}
        IN  /\ Val(stats).vacation_days = Cardinality(covered)
            /\ Val(stats).vacation_workdays
                   = Cardinality({d \in covered : ~IsSatOrSun(d)})

\* statistics of a year in which a Tuesday lies in two blocks
C3_Witness ==
    /\ stats # None
    /\ CM.year = 2025
    /\ Cardinality(BlocksCovering(OrdOf(<<2025, 12, 23>>))) = 2
    /\ Val(stats).vacation_workdays > 0

(***************************************************************************)
(* C4.  Each block's per-block total_days is its own inclusive span,       *)
(* whatever the other blocks are, so a date two blocks cover is counted in *)
(* the entry of each; get_day_info still gives that date one               *)
(* classification with one block id.                                       *)
(***************************************************************************)
C4_PerBlockSpan ==
    stats # None =>
        /\ Len(Val(stats).vacation_blocks) = Len(CfgBlocks)
        /\ \A i \in 1..Len(CfgBlocks) :
              Val(stats).vacation_blocks[i].total_days
                  = Ord(CfgBlocks[i].end) - Ord(CfgBlocks[i].start) + 1
        /\ \A a \in ProbeArgs :
              LET info == Val(get_day_info(CM, a[1], a[2], a[3]))
                  covering == BlocksCovering(OrdOf(a))
              IN  /\ info.type \in {"holiday", "weekend", "vacation", "weekday"}
                  /\ info.vacation_block =
                        IF covering = {} THEN None
                        ELSE Some((CHOOSE i \in covering :
                                      \A j \in covering : i <= j) - 1)

\* statistics of two blocks that share 2025-12-23, each with its full span
C4_Witness ==
    /\ stats # None
    /\ Len(CfgBlocks) = 2
    /\ BlocksCovering(OrdOf(<<2025, 12, 23>>)) = {1, 2}
    /\ Val(stats).vacation_blocks[1].total_days
         + Val(stats).vacation_blocks[2].total_days = 8

(***************************************************************************)
(* C5.  As claimed: a vacation config whose only block has start = end =   *)
(* d, d any date of the year, produces exactly one day of the year that    *)
(* get_day_info classifies as vacation.                                    *)
(***************************************************************************)
SingleDayBlockCase ==
    /\ calendar_manager # None
    /\ Len(CfgBlocks) = 1
    /\ CfgBlocks[1].start = CfgBlocks[1].end
    /\ Val(TextYMD(CfgBlocks[1].start))[1] = CM.year

VacationArgsOfYear == {a \in YearArgs(CM.year) : TypeOf(a) = "vacation"}

C5_SingleDayBlock ==
    SingleDayBlockCase => Cardinality(VacationArgsOfYear) = 1

(***************************************************************************)
(* C5, amended.  A vacation config whose only block has start = end = d, d *)
(* any date of the year, produces exactly one day of the year that         *)
(* get_day_info classifies as vacation, d itself, when d is neither a      *)
(* Saturday or Sunday nor a configured holiday, and none otherwise.        *)
(***************************************************************************)
C5_SingleDayBlockWorkday ==
    SingleDayBlockCase =>
        LET d == CfgBlocks[1].start
        IN  VacationArgsOfYear =
                IF IsSatOrSun(Ord(d)) \/ IsConfiguredHoliday(Ord(d)) THEN {}
                ELSE {Val(TextYMD(d))}

\* the only block is Tuesday 2025-12-23 and get_day_info reported it
C5_Witness ==
    /\ SingleDayBlockCase
    /\ CfgBlocks[1].start = ymd(2025, 12, 23)
    /\ ~IsConfiguredHoliday(OrdOf(<<2025, 12, 23>>))
    /\ day_info # None
    /\ Val(day_info).args = <<2025, 12, 23>>
    /\ Val(Val(day_info).result).type = "vacation"

(***************************************************************************)
(* C6.  calculate_statistics reports total_days = 366 when the manager's   *)
(* year is a Gregorian leap year and 365 otherwise (2025 -> 365, 2024 ->   *)
(* 366), whatever the holiday and vacation configs contain.                *)
(***************************************************************************)
C6_TotalDays ==
    stats # None =>
        LET y == CM.year
            leap == y % 4 = 0 /\ (y % 100 # 0 \/ y % 400 = 0)
        IN  /\ Val(stats).total_days = IF leap THEN 366 ELSE 365
            /\ y = 2025 => Val(stats).total_days = 365
            /\ y = 2024 => Val(stats).total_days = 366

\* statistics of the leap year 2024 with blocks and holidays configured
C6_Witness ==
    /\ stats # None
    /\ CM.year = 2024
    /\ Val(stats).total_days = 366
    /\ Len(CfgBlocks) > 0
    /\ Len(CfgHolidays) > 0

(***************************************************************************)
(* C7.  With holiday 2025-12-25 and the single block 2025-12-22 ..         *)
(* 2025-12-28, get_day_info classifies Dec 22, 23, 24 and 26 as vacation,  *)
(* Dec 25 as holiday, and Dec 27 and 28 as weekend.                        *)
(***************************************************************************)
ChristmasCase ==
    /\ calendar_manager # None
    /\ Len(CfgHolidays) = 1
    /\ CfgHolidays[1].date = ymd(2025, 12, 25)
    /\ Len(CfgBlocks) = 1
    /\ CfgBlocks[1].start = ymd(2025, 12, 22)
    /\ CfgBlocks[1].end = ymd(2025, 12, 28)

C7_ChristmasWeek ==
    ChristmasCase =>
        /\ \A n \in {22, 23, 24, 26} : TypeOf(<<2025, 12, n>>) = "vacation"
        /\ TypeOf(<<2025, 12, 25>>) = "holiday"
        /\ \A n \in {27, 28} : TypeOf(<<2025, 12, n>>) = "weekend"

\* get_day_info was called on Saturday 2025-12-27 in that configuration
C7_Witness ==
    /\ ChristmasCase
    /\ day_info # None
    /\ Val(day_info).args = <<2025, 12, 27>>
    /\ Val(Val(day_info).result).type = "weekend"

(***************************************************************************)
(* Well-formedness of a document, stated on the text of its dates.         *)
(***************************************************************************)
\* the text spells the numbers of a real calendar date
RealYMD(text) ==
    /\ TextYMD(text) # None
    /\ LET s == Val(TextYMD(text))
       IN  /\ s[1] \in 1..9999
           /\ s[2] \in 1..12
           /\ s[3] >= 1
           /\ s[3] <= (IF s[2] \in {4, 6, 9, 11} THEN 30
                       ELSE IF s[2] # 2 THEN 31
                       ELSE IF s[1] % 4 = 0
                               /\ (s[1] % 100 # 0 \/ s[1] % 400 = 0)
                            THEN 29 ELSE 28)

\* the text is a real calendar date written as YYYY-MM-DD
RealIsoDate(text) == IsIsoText(text) /\ RealYMD(text)

\* the date text spells is not after the date text2 spells
NotAfter(text, text2) ==
    LET s == Val(TextYMD(text))
        t == Val(TextYMD(text2))
    IN  \/ s[1] < t[1]
        \/ s[1] = t[1] /\ s[2] < t[2]
        \/ s[1] = t[1] /\ s[2] = t[2] /\ s[3] <= t[3]

VacationTopOK(doc) ==
    /\ VacationFields \subseteq doc.fields
    /\ doc.year.type = "int"
    /\ doc.vacationBlocks.type = "list"

BlockComplete(b) == {"description", "start", "end"} \subseteq b.fields

BlockFine(b) ==
    /\ BlockComplete(b)
    /\ RealYMD(b.start)
    /\ RealYMD(b.end)
    /\ NotAfter(b.start, b.end)

WellFormedVacation(doc) ==
    /\ VacationTopOK(doc)
    /\ \A i \in 1..Len(doc.vacationBlocks.val) :
          BlockFine(doc.vacationBlocks.val[i])

HolidayTopOK(doc) ==
    /\ HolidayFields \subseteq doc.fields
    /\ doc.holidays.type = "list"

EntryComplete(h) == {"date", "description"} \subseteq h.fields

EntryFine(h) == EntryComplete(h) /\ RealYMD(h.date)

WellFormedHoliday(doc) ==
    /\ HolidayTopOK(doc)
    /\ \A i \in 1..Len(doc.holidays.val) : EntryFine(doc.holidays.val[i])

\* some block (entry) of the document carries a date string that is not a
\* real date written as YYYY-MM-DD
HasBadDateV(doc) ==
    /\ "vacationBlocks" \in doc.fields
    /\ doc.vacationBlocks.type = "list"
    /\ \E i \in 1..Len(doc.vacationBlocks.val) :
          LET b == doc.vacationBlocks.val[i]
          IN  \/ "start" \in b.fields /\ ~RealIsoDate(b.start)
              \/ "end" \in b.fields /\ ~RealIsoDate(b.end)

HasBadDateH(doc) ==
    /\ "holidays" \in doc.fields
    /\ doc.holidays.type = "list"
    /\ \E i \in 1..Len(doc.holidays.val) :
          LET h == doc.holidays.val[i]
          IN  "date" \in h.fields /\ ~RealIsoDate(h.date)

\* the first defect of the document, in the order the validator reads it,
\* is a date string that is not a real date written as YYYY-MM-DD
BadDateFirstV(doc) ==
    /\ VacationTopOK(doc)
    /\ \E i \in 1..Len(doc.vacationBlocks.val) :
          LET b == doc.vacationBlocks.val[i]
          IN  /\ \A j \in 1..(i - 1) : BlockFine(doc.vacationBlocks.val[j])
              /\ BlockComplete(b)
              /\ ~RealIsoDate(b.start) \/ ~RealIsoDate(b.end)

BadDateFirstH(doc) ==
    /\ HolidayTopOK(doc)
    /\ \E i \in 1..Len(doc.holidays.val) :
          LET h == doc.holidays.val[i]
          IN  /\ \A j \in 1..(i - 1) : EntryFine(doc.holidays.val[j])
              /\ EntryComplete(h)
              /\ ~RealIsoDate(h.date)

\* the first defect of the document is a block with real dates, start after
\* end
ReversedFirstV(doc) ==
    /\ VacationTopOK(doc)
    /\ \E i \in 1..Len(doc.vacationBlocks.val) :
          LET b == doc.vacationBlocks.val[i]
          IN  /\ \A j \in 1..(i - 1) : BlockFine(doc.vacationBlocks.val[j])
              /\ BlockComplete(b)
              /\ RealYMD(b.start) /\ RealYMD(b.end)
              /\ ~NotAfter(b.start, b.end)

(***************************************************************************)
(* C8.  A holiday entry or vacation block whose date string is not a real  *)
(* YYYY-MM-DD date ("2025-13-40") makes the validator fail, with the       *)
(* date-format error when that string is the first defect the validator    *)
(* meets; the loader returns no config and no CalendarManager is ever      *)
(* built from that document.                                               *)
(***************************************************************************)
C8_MalformedDateRejected ==
    /\ HasBadDateV(vacation_file) =>
          /\ vacation_outcome # "ok"
          /\ vacation_config = None
          /\ calendar_manager = None
          /\ (BadDateFirstV(vacation_file) /\ vacation_outcome # "not called")
                => vacation_outcome = "InvalidDateFormat"
    /\ HasBadDateH(holiday_file) =>
          /\ holiday_outcome # "ok"
          /\ holiday_config = None
          /\ calendar_manager = None
          /\ (BadDateFirstH(holiday_file) /\ holiday_outcome # "not called")
                => holiday_outcome = "InvalidDateFormat"

\* initialize() has returned False on a vacation document with a block
\* starting "2025-13-40", after the holiday document was loaded
C8_Witness ==
    /\ HasBadDateV(vacation_file)
    /\ \E i \in 1..Len(vacation_file.vacationBlocks.val) :
          vacation_file.vacationBlocks.val[i].start = ymd(2025, 13, 40)
    /\ vacation_outcome = "InvalidDateFormat"
    /\ holiday_config # None
    /\ initialized = "False"

(***************************************************************************)
(* C9.  A vacation block whose start and end both parse, with start after  *)
(* end, makes _validate_vacation_config fail with the InvalidRange error,  *)
(* a different outcome from the InvalidDateFormat error of an unparsable   *)
(* date.                                                                   *)
(***************************************************************************)
C9_InvalidRange ==
    (ReversedFirstV(vacation_file) /\ vacation_outcome # "not called") =>
        /\ vacation_outcome = "InvalidRange"
        /\ vacation_outcome # "InvalidDateFormat"

(***************************************************************************)
(* C10.  Both validators reject the structurally invalid documents and     *)
(* accept all others: validation fails if a required top-level field is    *)
(* absent, if holidays or vacationBlocks is not a list, if the vacation    *)
(* year is not an integer, or if an entry lacks a required field; a        *)
(* document with none of these defects, real dates and start <= end in     *)
(* every block passes; validation does not modify the document.            *)
(***************************************************************************)
C10_State ==
    /\ vacation_outcome # "not called" =>
          /\ vacation_outcome = "ok" <=> WellFormedVacation(vacation_file)
          /\ ~VacationFields \subseteq vacation_file.fields
                => vacation_outcome = "MissingField"
    /\ holiday_outcome # "not called" =>
          /\ holiday_outcome = "ok" <=> WellFormedHoliday(holiday_file)
          /\ ~HolidayFields \subseteq holiday_file.fields
                => holiday_outcome = "MissingField"
    /\ vacation_config # None => vacation_config = Some(vacation_file)
    /\ holiday_config # None => holiday_config = Some(holiday_file)

C10_ValidatorsDecide ==
    /\ []C10_State
    /\ [][vacation_file' = vacation_file /\ holiday_file' = holiday_file]_vars

\* the vacation validator has rejected a document for a non-integer year
\* and the holiday validator has accepted its document
C10_Witness ==
    /\ vacation_outcome = "InvalidType"
    /\ vacation_file.year.type = "str"
    /\ holiday_outcome = "ok"
    /\ holiday_config = Some(holiday_file)

(***************************************************************************)
(* C11.  Year and region mismatches are never fatal.  A block or a holiday *)
(* entry dated outside the year its document declares does not make        *)
(* validation fail, and a pair of well-formed documents that disagree on   *)
(* the year or whose regions do not contain one another (case ignored)     *)
(* does not make initialize fail: it returns True and the manager is built *)
(* from the two supplied documents with the vacation document's year.      *)
(***************************************************************************)
C11_MismatchNotFatal ==
    /\ (vacation_outcome # "not called" /\ WellFormedVacation(vacation_file))
          => vacation_outcome = "ok"
    /\ (holiday_outcome # "not called" /\ WellFormedHoliday(holiday_file))
          => holiday_outcome = "ok"
    /\ (/\ initialized # "not called"
        /\ WellFormedVacation(vacation_file)
        /\ WellFormedHoliday(holiday_file))
          => /\ initialized = "True"
             /\ calendar_manager # None
             /\ CM.year = vacation_file.year.val
             /\ CM.vacation_config = vacation_file
             /\ CM.holiday_config = holiday_file

\* initialize returned True on a 2025 vacation document with a block that
\* starts in 2024 and a 2024 holiday document of region "Zurich" whose
\* entry is dated 2025: both warnings were raised, nothing failed
C11_Witness ==
    /\ initialized = "True"
    /\ calendar_manager # None
    /\ CM.year = 2025
    /\ CM.holiday_config.year = JsonInt(2024)
    /\ CM.holiday_config.region = Zurich
    /\ \E i \in 1..Len(CfgBlocks) :
          Val(TextYMD(CfgBlocks[i].start))[1] # CM.year
    /\ \E i \in 1..Len(CfgHolidays) :
          Val(TextYMD(CfgHolidays[i].date))[1] # 2024
    /\ _validate_configs(vacation_config, holiday_config).warnings
          = {"Year mismatch", "Region mismatch"}

(***************************************************************************)
(* C12.  All configuration errors are raised before classification: a      *)
(* CalendarManager exists only when both configs were loaded and passed    *)
(* validation, and on a manager built from validated configs get_day_info, *)
(* for every real date of the manager's year, and calculate_statistics     *)
(* complete without raising.                                               *)
(***************************************************************************)
C12_ErrorsBeforeClassification ==
    /\ calendar_manager # None =>
          /\ vacation_config # None /\ holiday_config # None
          /\ _validate_vacation_config(Val(vacation_config)) = "ok"
          /\ _validate_holiday_config(Val(holiday_config)) = "ok"
          /\ CM.vacation_config = Val(vacation_config)
          /\ CM.holiday_config = Val(holiday_config)
          /\ \A a \in YearArgs(CM.year) :
                get_day_info(CM, a[1], a[2], a[3])
                    \notin {None, Raised("KeyError")}
    /\ stats_error = None

(***************************************************************************)
(* C13.  An error on a configuration file terminates the run: when the     *)
(* file named by vacation_config_path or holiday_config_path is missing or *)
(* fails to load, no output file is written and the application does not   *)
(* go on with another configuration file, so no CalendarManager is built.  *)
(***************************************************************************)
\* an iCalendar text with at least one event, every event with a DTSTART
WellFormedICal(content) ==
    /\ "components" \in DOMAIN content
    /\ \E i \in DOMAIN content.components :
          content.components[i].name = "VEVENT"
    /\ \A i \in DOMAIN content.components :
          content.components[i].name = "VEVENT"
              => content.components[i].dtstart # None

\* the file of the given name and content is a holiday configuration: a
\* well-formed JSON document under a name in .json, or a well-formed
\* calendar under a name in .ics
HolidayFileFine(name, content) ==
    \/ /\ endswith(name, dot_json)
       /\ "fields" \in DOMAIN content
       /\ WellFormedHoliday(content)
    \/ /\ endswith(name, dot_ics)
       /\ WellFormedICal(content)

SuppliedFileFailed ==
    \/ vacation_config_path = "missing"
    \/ vacation_config_path = "file" /\ ~WellFormedVacation(vacation_file)
    \/ /\ holiday_config_path # None
       /\ Val(holiday_config_path).name # <<>>
       /\ \/ ~Val(holiday_config_path).exists
          \/ ~HolidayFileFine(Val(holiday_config_path).name, holiday_file)

C13_SuppliedFileErrorTerminates ==
    SuppliedFileFailed =>
        /\ ics_file = None
        /\ viz_files = None
        /\ calendar_manager = None

(***************************************************************************)
(* C14.  ConfigManager.load_vacation_config and load_holiday_config raise  *)
(* ValueError to their caller whenever the configuration that was selected *)
(* fails validation, on every selection path: explicit path, exact or      *)
(* partial name match, the single candidate, and the numbered choice.      *)
(***************************************************************************)
\* the outcomes that are a ValueError raised by a validator, or for it by
\* the loader of an iCalendar file
ValidationErrors ==
    {"MissingField", "InvalidType", "InvalidDateFormat", "InvalidICal"}

\* the position the first line typed that names a listed file selects
RECURSIVE FirstChoice(_, _)
FirstChoice(n, inputs) ==
    IF inputs = <<>> THEN None
    ELSE IF Head(inputs) # None /\ Val(Head(inputs)) \in 1..n
         THEN Head(inputs)
         ELSE FirstChoice(n, Tail(inputs))

\* the file the recorded call selected, None when it selected none: for
\* load_vacation_config the document, for load_holiday_config the entry
\* of the listing
SelectedDoc ==
    LET c == load_call
        v == conf_dir.vacation
        h == conf_dir.holiday
    IN  IF c.fn = "load_vacation_config"
        THEN IF c.filepath # None /\ Val(c.filepath) # None
             THEN Val(c.filepath)
             ELSE IF v = <<>> THEN None
             ELSE IF Len(v) = 1 THEN Some(v[1])
             ELSE LET k == FirstChoice(Len(v), c.inputs)
                  IN  IF k = None THEN None ELSE Some(v[Val(k)])
        ELSE LET named == /\ c.region # None /\ Val(c.region) # <<>>
                          /\ c.year # None /\ Val(c.year) # 0
                 exact == IF named
                          THEN ExactMatches(Val(c.region), Val(c.year), h)
                          ELSE {}
                 ical == IF named
                         THEN ICalMatches(Val(c.region), Val(c.year), h)
                         ELSE {}
                 partial == IF named
                            THEN potential_matches(Val(c.region), Val(c.year), h)
                            ELSE {}
             IN  IF h = <<>> THEN None
                 ELSE IF exact # {} THEN Some(h[Min(exact)])
                 ELSE IF ical # {} THEN Some(h[Min(ical)])
                 ELSE IF partial # {} THEN Some(h[Min(partial)])
                 ELSE IF Len(h) = 1 THEN Some(h[1])
                 ELSE LET k == FirstChoice(Len(h), c.inputs)
                      IN  IF k = None THEN None ELSE Some(h[Val(k)])

SelectedFailsValidation ==
    /\ load_call # None
    /\ SelectedDoc # None
    /\ IF load_call.fn = "load_vacation_config"
       THEN ~WellFormedVacation(Val(SelectedDoc))
       ELSE ~HolidayFileFine(Val(SelectedDoc).name, Val(SelectedDoc).doc)

C14_InvalidSelectionRaises ==
    SelectedFailsValidation => load_call.outcome \in ValidationErrors

(***************************************************************************)
(* C15.  The holidays statistic counts configured holiday dates, whatever  *)
(* get_day_info's precedence makes of them: every date of the year that    *)
(* equals some holiday entry's date adds exactly 1, a holiday on a         *)
(* Saturday or Sunday or inside a vacation block included.                 *)
(***************************************************************************)
C15_HolidaysCounted ==
    stats # None =>
        Val(stats).holidays
            = Cardinality({d \in YearDays(CM.year) : IsConfiguredHoliday(d)})

\* statistics of a year with a holiday on a Saturday inside a block
C15_Witness ==
    /\ stats # None
    /\ CM.year = 2025
    /\ IsConfiguredHoliday(OrdOf(<<2025, 12, 27>>))
    /\ BlocksCovering(OrdOf(<<2025, 12, 27>>)) # {}
    /\ Val(stats).holidays = 1

(***************************************************************************)
(* C16.  vacation_workdays counts the days of the year that are not a      *)
(* Saturday or Sunday and lie in some vacation block, by block membership  *)
(* alone: a weekday that is a configured holiday and lies inside a block   *)
(* is still counted.                                                       *)
(***************************************************************************)
C16_VacationWorkdays ==
    stats # None =>
        Val(stats).vacation_workdays
            = Cardinality({d \in YearDays(CM.year) :
                              ~IsSatOrSun(d) /\ BlocksCovering(d) # {}})

\* statistics of 2025 with the Thursday holiday 2025-12-25 inside the block
\* from Monday 2025-12-22 to Sunday 2025-12-28: five vacation workdays
C16_Witness ==
    /\ stats # None
    /\ CM.year = 2025
    /\ IsConfiguredHoliday(OrdOf(<<2025, 12, 25>>))
    /\ Len(CfgBlocks) = 1
    /\ CfgBlocks[1] = ChristmasBlock
    /\ Val(stats).vacation_workdays = 5

(***************************************************************************)
(* C17.  For each configured block the per-block workdays value is the     *)
(* number of dates in [start, end] that are neither a Saturday or Sunday   *)
(* nor a configured holiday, and it is at most the block's total_days;     *)
(* the part of a block outside the manager's year is counted the same way. *)
(***************************************************************************)
C17_PerBlockWorkdays ==
    stats # None =>
        \A i \in 1..Len(CfgBlocks) :
            LET span == Ord(CfgBlocks[i].start)..Ord(CfgBlocks[i].end)
                entry == Val(stats).vacation_blocks[i]
            IN  /\ entry.workdays
                     = Cardinality({d \in span :
                                       ~IsSatOrSun(d) /\ ~IsConfiguredHoliday(d)})
                /\ entry.workdays <= entry.total_days

\* statistics of the year 2024 with the block 2025-12-22..28, all of it
\* outside the year, around the Thursday holiday 2025-12-25: four workdays
\* in seven days
C17_Witness ==
    /\ stats # None
    /\ CM.year = 2024
    /\ Len(CfgBlocks) = 1
    /\ CfgBlocks[1] = ChristmasBlock
    /\ IsConfiguredHoliday(OrdOf(<<2025, 12, 25>>))
    /\ Val(stats).vacation_blocks[1].workdays = 4
    /\ Val(stats).vacation_blocks[1].total_days = 7

(***************************************************************************)
(* C18.  Block membership is inclusive at both ends and resolved by        *)
(* configured order: for a day classified vacation the attached            *)
(* vacation_block id and the attached description belong to the same       *)
(* block, the first in configured order with start <= day <= end, the      *)
(* start and end days themselves included.                                 *)
(***************************************************************************)
C18_FirstCoveringBlock ==
    calendar_manager # None =>
        /\ \A a \in ProbeArgs :
              LET info == Val(get_day_info(CM, a[1], a[2], a[3]))
                  covering == BlocksCovering(OrdOf(a))
                  first == CHOOSE i \in covering : \A j \in covering : i <= j
              IN  info.type = "vacation" =>
                      /\ covering # {}
                      /\ info.vacation_block = Some(first - 1)
                      /\ info.description = Some(CfgBlocks[first].description)
        /\ \A i \in 1..Len(CfgBlocks) :
              \A a \in {Val(TextYMD(CfgBlocks[i].start)),
                        Val(TextYMD(CfgBlocks[i].end))} :
                  LET info == Val(get_day_info(CM, a[1], a[2], a[3]))
                  IN  /\ info.type # "weekday"
                      /\ info.vacation_block # None

\* get_day_info was called on Tuesday 2025-12-23, the only day of the first
\* block and a day of the second
C18_Witness ==
    /\ day_info # None
    /\ Val(day_info).args = <<2025, 12, 23>>
    /\ BlocksCovering(OrdOf(<<2025, 12, 23>>)) = {1, 2}
    /\ CfgBlocks[1] = DayOffBlock
    /\ Val(Val(day_info).result).type = "vacation"
    /\ Val(Val(day_info).result).vacation_block = Some(0)
    /\ Val(Val(day_info).result).description = Some("Day off")

(***************************************************************************)
(* C19.  When several holiday entries share a date, get_day_info           *)
(* classifies that date as holiday, once, and the description is that of   *)
(* the first matching entry in configured order.                           *)
(***************************************************************************)
\* the entries, by position, whose date is d
EntriesOn(d) ==
    {i \in 1..Len(CfgHolidays) : strptime(CfgHolidays[i].date) = Some(d)}

C19_FirstMatchingEntry ==
    calendar_manager # None =>
        \A a \in ProbeArgs :
            LET info == Val(get_day_info(CM, a[1], a[2], a[3]))
                entries == EntriesOn(OrdOf(a))
                first == CHOOSE i \in entries : \A j \in entries : i <= j
            IN  entries # {} =>
                    /\ info.type = "holiday"
                    /\ info.description = Some(CfgHolidays[first].description)

\* get_day_info was called on 2025-12-25, which two entries with different
\* descriptions name
C19_Witness ==
    /\ day_info # None
    /\ Val(day_info).args = <<2025, 12, 25>>
    /\ EntriesOn(OrdOf(<<2025, 12, 25>>)) = {1, 2}
    /\ CfgHolidays[1].description # CfgHolidays[2].description
    /\ Val(Val(day_info).result).type = "holiday"
    /\ Val(Val(day_info).result).description = Some(CfgHolidays[1].description)

(***************************************************************************)
(* C20.  ICSGenerator.generate_ics emits exactly one all-day event for     *)
(* each date of the year classified holiday or vacation, one for each date *)
(* classified weekend iff include_weekends is true, and none for a date    *)
(* classified weekday; each event has DTSTART equal to that date and DTEND *)
(* equal to the following calendar day, also from December 31 into the     *)
(* next year.                                                              *)
(***************************************************************************)
\* the calendar day after the day (year, month, day)
NextDay(s) ==
    IF IsRealDate(s[1], s[2], s[3] + 1) THEN <<s[1], s[2], s[3] + 1>>
    ELSE IF s[2] < 12 THEN <<s[1], s[2] + 1, 1>>
    ELSE <<s[1] + 1, 1, 1>>

\* the classification of the date d of the manager's year, by precedence
ClassOf(d) ==
    IF IsConfiguredHoliday(d) THEN "holiday"
    ELSE IF IsSatOrSun(d) THEN "weekend"
    ELSE IF BlocksCovering(d) # {} THEN "vacation"
    ELSE "weekday"

C20_OneEventPerDay ==
    ics_file # None =>
        LET f == Val(ics_file)
            ev == f.events
            expected ==
                {d \in YearDays(CM.year) :
                    \/ ClassOf(d) \in {"holiday", "vacation"}
                    \/ ClassOf(d) = "weekend" /\ f.include_weekends}
        IN  /\ \A k \in 1..(Len(ev) - 1) : ev[k].dtstart < ev[k + 1].dtstart
            /\ {ev[k].dtstart : k \in 1..Len(ev)} = expected
            /\ \A k \in 1..Len(ev) :
                  /\ _ord2ymd(ev[k].dtend) = NextDay(_ord2ymd(ev[k].dtstart))
                  /\ ev[k].uid[2] = ClassOf(ev[k].dtstart)

\* the calendar of 2024 with a vacation event on Tuesday 2024-12-31 that
\* ends on 2025-01-01
C20_Witness ==
    /\ ics_file # None
    /\ CM.year = 2024
    /\ \E k \in 1..Len(Val(ics_file).events) :
          LET e == Val(ics_file).events[k]
          IN  /\ _ord2ymd(e.dtstart) = <<2024, 12, 31>>
              /\ _ord2ymd(e.dtend) = <<2025, 1, 1>>
              /\ e.uid[2] = "vacation"

(***************************************************************************)
(* C21.  Every emitted ICS event has class PUBLIC when the day's           *)
(* classification is holiday or weekend and PRIVATE when it is vacation;   *)
(* so a Saturday, a Sunday or a holiday inside a vacation block is emitted *)
(* as PUBLIC, never PRIVATE.                                               *)
(***************************************************************************)
C21_EventClass ==
    ics_file # None =>
        \A k \in 1..Len(Val(ics_file).events) :
            LET e == Val(ics_file).events[k]
                d == e.dtstart
            IN  /\ ClassOf(d) \in {"holiday", "weekend"} => e.class = "PUBLIC"
                /\ ClassOf(d) = "vacation" => e.class = "PRIVATE"
                /\ (BlocksCovering(d) # {}
                        /\ (IsSatOrSun(d) \/ IsConfiguredHoliday(d)))
                       => e.class = "PUBLIC"

\* a calendar with a PUBLIC event on Saturday 2025-12-27, a day inside a
\* block and no holiday, and a PRIVATE event on Monday 2025-12-22
C21_Witness ==
    /\ ics_file # None
    /\ BlocksCovering(OrdOf(<<2025, 12, 27>>)) # {}
    /\ ~IsConfiguredHoliday(OrdOf(<<2025, 12, 27>>))
    /\ \E k \in 1..Len(Val(ics_file).events) :
          /\ Val(ics_file).events[k].dtstart = OrdOf(<<2025, 12, 27>>)
          /\ Val(ics_file).events[k].class = "PUBLIC"
    /\ \E k \in 1..Len(Val(ics_file).events) :
          /\ Val(ics_file).events[k].dtstart = OrdOf(<<2025, 12, 22>>)
          /\ Val(ics_file).events[k].class = "PRIVATE"

(***************************************************************************)
(* C22.  Whether weekend events appear in the ICS file is chosen by the    *)
(* caller of the workflow: the command line with --include-weekends yields *)
(* weekend events, and without that option it yields an ICS file with no   *)
(* weekend events.                                                         *)
(***************************************************************************)
\* the calendar file holds an event of a day classified weekend
HasWeekendEvent ==
    \E k \in 1..Len(Val(ics_file).events) :
        Val(ics_file).events[k].categories = "Weekend"

C22_WeekendsByOption ==
    (cli_args # None /\ ics_file # None) =>
        (HasWeekendEvent <=> Val(cli_args).include_weekends)

(***************************************************************************)
(* C23.  get_day_info and calculate_statistics are pure: any sequence or   *)
(* interleaving of calls leaves year, holiday_config, vacation_config, the *)
(* parsed holidays and the parsed vacation_blocks unchanged, so a call     *)
(* with the same arguments always returns the same result.                 *)
(***************************************************************************)
C23_Pure ==
    [][calendar_manager # None =>
           /\ calendar_manager' = calendar_manager
           /\ day_info' # day_info =>
                  Val(day_info').result
                      = get_day_info(CM, Val(day_info').args[1],
                                     Val(day_info').args[2],
                                     Val(day_info').args[3])
           /\ stats' # stats => stats' = Some(calculate_statistics(CM))]_vars

\* both methods were called and the manager is still the one the
\* constructor built from the two configs
C23_Witness ==
    /\ day_info # None
    /\ stats # None
    /\ Len(CM.holidays) > 0
    /\ Len(CM.vacation_blocks) > 0
    /\ calendar_manager
         = CalendarManager(Val(vacation_config).year.val,
                           Val(holiday_config), Val(vacation_config))

(***************************************************************************)
(* C24.  create_visualization and create_ics called before a successful    *)
(* initialize() raise ValueError ('Application not initialized') and       *)
(* produce no output file; after initialize() has returned True both calls *)
(* proceed.                                                                *)
(***************************************************************************)
\* a step that leaves initialized alone is a call of create_visualization
\* or of create_ics
C24_NotInitialized ==
    [][initialized' = initialized =>
           /\ initialized # "True" =>
                  /\ app_outcome' = NotInitialized
                  /\ UNCHANGED <<viz_files, ics_file, calendar_manager>>
           /\ initialized = "True" =>
                  /\ app_outcome' # NotInitialized
                  /\ app_outcome' = "ok" =>
                         \/ viz_files = None /\ viz_files' # None
                         \/ ics_file = None /\ ics_file' # None]_vars

\* a call after initialize() returned False: the error, and no file
C24_Witness ==
    /\ initialized = "False"
    /\ app_outcome = NotInitialized
    /\ viz_files = None
    /\ ics_file = None

(***************************************************************************)
(* C25.  VacationPlanerApp.initialize never raises: it returns True only   *)
(* when the configs and the components are all set, and False on any load, *)
(* validation or construction failure; run() exits with status 1 without   *)
(* creating any visualization or ICS file when initialize() returns False, *)
(* and otherwise creates the visualization iff create_viz and the ICS file *)
(* iff create_ics, the visualization first.                                *)
(***************************************************************************)
C25_InitializeAndRun ==
    /\ initialized \in {"not called", "True", "False"}
    /\ initialized = "True" =>
          /\ vacation_config # None
          /\ holiday_config # None
          /\ calendar_manager # None
    /\ initialized = "False" => calendar_manager = None
    /\ cli_args # None =>
          LET a == Val(cli_args)
          IN  /\ initialized = "False" =>
                    /\ a.status = Some(1)
                    /\ viz_files = None
                    /\ ics_file = None
              /\ initialized = "True" =>
                    /\ viz_files # None <=> ~a.no_viz
                    /\ ics_file # None <=> ~a.no_ics

(***************************************************************************)
(* C26.  CalendarManager construction never fails on an unparsable date in *)
(* an unvalidated config: such a holiday entry or vacation block is        *)
(* skipped, every retained block's id is its index in the configured       *)
(* vacationBlocks sequence (ids are not renumbered after a skip), and the  *)
(* vacation_blocks statistics are listed in configured order.              *)
(***************************************************************************)
\* the positions of the blocks of a document whose two dates parse, and of
\* the holiday entries whose date parses
ParsableBlocks(doc) ==
    {i \in 1..Len(doc.vacationBlocks.val) :
        /\ RealYMD(doc.vacationBlocks.val[i].start)
        /\ RealYMD(doc.vacationBlocks.val[i].end)}
ParsableEntries(doc) ==
    {i \in 1..Len(doc.holidays.val) : RealYMD(doc.holidays.val[i].date)}

\* every block and entry of the two documents has all its fields
FieldsComplete ==
    /\ \A i \in 1..Len(vacation_file.vacationBlocks.val) :
          BlockComplete(vacation_file.vacationBlocks.val[i])
    /\ \A i \in 1..Len(holiday_file.holidays.val) :
          EntryComplete(holiday_file.holidays.val[i])

C26_SkippedNotRenumbered ==
    /\ (app_outcome # "not called" /\ FieldsComplete) =>
          /\ app_outcome = "ok"
          /\ calendar_manager # None
    /\ calendar_manager # None =>
          LET blocks == CM.vacation_blocks
              kept == ParsableBlocks(vacation_file)
          IN  /\ Len(blocks) = Cardinality(kept)
              /\ Len(CM.holidays) = Cardinality(ParsableEntries(holiday_file))
              /\ \A k \in 1..Len(blocks) :
                    /\ blocks[k][4] + 1 \in kept
                    /\ blocks[k][1] = Ord(CfgBlocks[blocks[k][4] + 1].start)
                    /\ blocks[k][2] = Ord(CfgBlocks[blocks[k][4] + 1].end)
                    /\ blocks[k][3] = CfgBlocks[blocks[k][4] + 1].description
                    /\ k > 1 => blocks[k - 1][4] < blocks[k][4]
              /\ stats # None =>
                    /\ Len(Val(stats).vacation_blocks) = Len(blocks)
                    /\ \A k \in 1..Len(blocks) :
                          Val(stats).vacation_blocks[k].id = blocks[k][4]

\* statistics of a manager built from a block with an unparsable start
\* followed by a good block, which keeps the id 1
C26_Witness ==
    /\ stats # None
    /\ Len(CfgBlocks) = 2
    /\ ~RealYMD(CfgBlocks[1].start)
    /\ Len(CM.vacation_blocks) = 1
    /\ Len(Val(stats).vacation_blocks) = 1
    /\ Val(stats).vacation_blocks[1].id = 1
    /\ Len(CfgHolidays) = 2
    /\ Len(CM.holidays) = 1

(***************************************************************************)
(* C27.  For every year and every pair of configs calculate_statistics     *)
(* returns days_off <= total_days (the share of the year reported as days  *)
(* off never exceeds 100%) and 0 <= days_at_work <= workdays.              *)
(***************************************************************************)
C27_DaysOffBounded ==
    stats # None =>
        /\ Val(stats).days_off <= Val(stats).total_days
        /\ 0 <= Val(stats).days_at_work
        /\ Val(stats).days_at_work <= Val(stats).workdays

(***************************************************************************)
(* C28.  As claimed: the number of days of the year that get_day_info      *)
(* classifies as vacation equals the number of distinct days of the year   *)
(* that lie in at least one block and are neither Saturday or Sunday nor a *)
(* configured holiday; it never exceeds vacation_workdays, and the two are *)
(* equal exactly when no weekday holiday lies inside a block.              *)
(***************************************************************************)
\* the dates of the manager's year that get_day_info classifies as vacation
VacationClassified ==
    {OrdOf(a) : a \in {b \in YearArgs(CM.year) : TypeOf(b) = "vacation"}}

\* the dates of the manager's year in some block that are neither a
\* Saturday or Sunday nor a configured holiday
VacationExpected ==
    {d \in YearDays(CM.year) :
        BlocksCovering(d) # {} /\ ~IsSatOrSun(d) /\ ~IsConfiguredHoliday(d)}

\* the dates some holiday entry names that are not a Saturday or Sunday and
\* lie inside a block
WeekdayHolidaysInBlocks ==
    {d \in {Ord(CfgHolidays[i].date) : i \in 1..Len(CfgHolidays)} :
        ~IsSatOrSun(d) /\ BlocksCovering(d) # {}}

C28_VacationCount ==
    stats # None =>
        LET n == Cardinality(VacationClassified)
        IN  /\ VacationClassified = VacationExpected
            /\ n <= Val(stats).vacation_workdays
            /\ n = Val(stats).vacation_workdays
                   <=> WeekdayHolidaysInBlocks = {}

(***************************************************************************)
(* C28, amended.  The same, with the equality holding exactly when no      *)
(* weekday holiday of the manager's year lies inside a block: a holiday    *)
(* inside a block outside the year takes nothing from either count.        *)
(***************************************************************************)
C28_VacationCountOfYear ==
    stats # None =>
        LET n == Cardinality(VacationClassified)
        IN  /\ VacationClassified = VacationExpected
            /\ n <= Val(stats).vacation_workdays
            /\ n = Val(stats).vacation_workdays
                   <=> WeekdayHolidaysInBlocks \cap YearDays(CM.year) = {}

\* statistics of 2025 with the Thursday holiday 2025-12-25 inside the block
\* 2025-12-22..28: four days classified vacation, five vacation workdays
C28_Witness ==
    /\ stats # None
    /\ CM.year = 2025
    /\ WeekdayHolidaysInBlocks = {OrdOf(<<2025, 12, 25>>)}
    /\ Cardinality(VacationClassified) = 4
    /\ Val(stats).vacation_workdays = 5

(***************************************************************************)
(* C29.  Global vacation_days never exceeds the sum of the per-block       *)
(* total_days, and the two are equal when the blocks are pairwise disjoint *)
(* and lie wholly inside the manager's year; days of a block outside the   *)
(* year are counted in that block's total_days but not in the global       *)
(* vacation_days.                                                          *)
(***************************************************************************)
\* the sum of total_days over the per-block entries i, i + 1, ...
RECURSIVE SumTotalDays(_)
SumTotalDays(i) ==
    IF i > Len(Val(stats).vacation_blocks) THEN 0
    ELSE Val(stats).vacation_blocks[i].total_days + SumTotalDays(i + 1)

\* the closed interval of block i
Span(i) == Ord(CfgBlocks[i].start)..Ord(CfgBlocks[i].end)

BlocksDisjointInYear ==
    /\ \A i \in 1..Len(CfgBlocks) : Span(i) \subseteq YearDays(CM.year)
    /\ \A i, j \in 1..Len(CfgBlocks) : i # j => Span(i) \cap Span(j) = {}

C29_GlobalAndPerBlock ==
    stats # None =>
        /\ Val(stats).vacation_days <= SumTotalDays(1)
        /\ BlocksDisjointInYear => Val(stats).vacation_days = SumTotalDays(1)
        /\ \A i \in 1..Len(CfgBlocks) :
              Val(stats).vacation_blocks[i].total_days = Cardinality(Span(i))
        /\ Val(stats).vacation_days
               = Cardinality(UNION {Span(i) : i \in 1..Len(CfgBlocks)}
                                 \cap YearDays(CM.year))

\* statistics of 2025 with the block 2024-12-30..2025-01-02: four days in
\* the block's entry, two of them in the global count
C29_Witness ==
    /\ stats # None
    /\ CM.year = 2025
    /\ Len(CfgBlocks) = 1
    /\ CfgBlocks[1] = NewYearBlock
    /\ Val(stats).vacation_blocks[1].total_days = 4
    /\ Val(stats).vacation_days = 2

(***************************************************************************)
(* C30.  get_day_info attaches vacation_block by block membership alone,   *)
(* whatever type it reports: vacation_block is set exactly when the date   *)
(* lies in some block, so a holiday or weekend day inside a block carries  *)
(* the id of the first block that holds it; description is set only for    *)
(* holiday and vacation days; a padding cell (day 0) is of type outside    *)
(* with an empty display, no description and no block.                     *)
(***************************************************************************)
Padding ==
    [type |-> "outside", display |-> None, description |-> None,
     vacation_block |-> None]

C30_BlockByMembership ==
    calendar_manager # None =>
        /\ \A a \in ProbeArgs :
              LET info == Val(get_day_info(CM, a[1], a[2], a[3]))
                  covering == BlocksCovering(OrdOf(a))
              IN  /\ info.vacation_block # None <=> covering # {}
                  /\ covering # {} =>
                         info.vacation_block = Some(Min(covering) - 1)
                  /\ info.description # None =>
                         info.type \in {"holiday", "vacation"}
                  /\ info.type # "outside"
                  /\ info.display = Some(a[3])
        /\ \A y \in {2024, 2025, 2026} : \A month \in 1..12 :
              get_day_info(CM, y, month, 0) = Some(Padding)
        /\ day_info # None /\ Val(day_info).args[3] = 0 =>
              Val(day_info).result = Some(Padding)

\* get_day_info was called on Saturday 2025-12-27, inside the second block:
\* a weekend day without description that carries the block's id
C30_Witness ==
    /\ day_info # None
    /\ Val(day_info).args = <<2025, 12, 27>>
    /\ BlocksCovering(OrdOf(<<2025, 12, 27>>)) = {2}
    /\ Val(Val(day_info).result).type = "weekend"
    /\ Val(Val(day_info).result).description = None
    /\ Val(Val(day_info).result).vacation_block = Some(1)

\* get_day_info was called on Thursday 2025-12-25, a holiday inside a block,
\* and on a padding cell
C30_WitnessHoliday ==
    /\ day_info # None
    /\ Val(day_info).args = <<2025, 12, 25>>
    /\ Val(Val(day_info).result).type = "holiday"
    /\ Val(Val(day_info).result).vacation_block # None

C30_WitnessPadding ==
    /\ day_info # None
    /\ Val(day_info).args = <<2025, 12, 0>>
    /\ Val(day_info).result = Some(Padding)

====
